---- MODULE Spec2Model ----
(***************************************************************************)
(* KiroGate streaming engine (kiro_gateway/streaming.py and                *)
(* kiro_gateway/buffered_streaming.py) as a state machine.                 *)
(*                                                                         *)
(* One client request is served by one of three generators, fixed when the *)
(* request is routed (variable engine):                                    *)
(*   "anthropic"  stream_kiro_to_anthropic                                 *)
(*   "buffered"   stream_kiro_to_anthropic_buffered, whose background task *)
(*                runs BufferedAnthropicStreamHandler.process_stream       *)
(*   "retry"      stream_with_first_token_retry driving                    *)
(*                stream_kiro_to_openai_internal                           *)
(* The upstream (chunks, timeouts, transport errors, end of stream) and    *)
(* the client (disconnect) are the environment.  Text is a sequence of     *)
(* one-character strings.                                                  *)
(***************************************************************************)
EXTENDS Integers, Sequences, FiniteSets, TLC

VARIABLES
    engine,                    \* which generator serves the request
    pc,                        \* position of the generator
    out,                       \* SSE events / chunks delivered to the client
    thinking_enabled,          \* ThinkingStreamHandler.thinking_enabled
    in_thinking_block,         \* ThinkingStreamHandler.in_thinking_block
    thinking_buffer,           \* ThinkingStreamHandler.thinking_buffer
    content_block_index,       \* content_block_index / _content_block_index
    text_block_started,        \* text_block_started / _text_block_started
    thinking_block_started,    \* thinking_block_started / _thinking_block_started
    context_usage_percentage,  \* None, or the last percentage, in tenths of a percent
    consecutive_timeouts,      \* consecutive_timeouts of the read loop
    event_buffer,              \* BufferedAnthropicStreamHandler.event_buffer
    stream_task,               \* buffered mode: state of the background task
    since_ping,                \* buffered mode: seconds since last_ping_time
    responses,                 \* the upstream responses opened, each "open" or "closed"
    attempt,                   \* stream_with_first_token_retry: attempt
    max_retries,               \* stream_with_first_token_retry: max_retries
    request_tokens,            \* local tokenizer count of the request
    max_input_tokens,          \* model_cache.get_max_input_tokens(model)
    raised,                    \* the exception that left the generator, or "none"
    hist                       \* history of the run (environment side)

stream_vars == <<engine, pc, out, thinking_enabled, in_thinking_block, thinking_buffer,
                 content_block_index, text_block_started, thinking_block_started,
                 context_usage_percentage, consecutive_timeouts, event_buffer,
                 stream_task, since_ping, responses, attempt, max_retries,
                 request_tokens, max_input_tokens, raised, hist>>

\* The two thinking-tag parsers on their own (ThinkingStreamHandler of
\* streaming.py, KiroThinkingTagParser of thinking_parser.py), fed the same
\* chunks.
VARIABLES
    parse_pc,          \* "idle", "feeding" or "flushed"
    parse_rest,        \* the part of the upstream text not yet received
    parse_fed,         \* the chunks received so far, in order
    handler_enabled,   \* ThinkingStreamHandler.thinking_enabled
    handler,           \* ThinkingStreamHandler: in_thinking_block, thinking_buffer
    handler_events,    \* events returned by process_content and flush, in order
    kiro,              \* KiroThinkingTagParser: _buffer, _is_thinking_mode
    kiro_segments      \* segments returned by push_and_parse and flush, in order

parser_vars == <<parse_pc, parse_rest, parse_fed, handler_enabled, handler,
                 handler_events, kiro, kiro_segments>>

\* The token-pool allocator (token_allocator.py) with the tables it reads, and
\* the request it serves (request_handler.py).
VARIABLES
    credentials,           \* credentials table: id -> row
    custom_api_accounts,   \* active external-API accounts: id -> row
    self_use_enabled,      \* metrics.is_self_use_enabled()
    request,               \* the request: user_id, model, and request.state
    allocation,            \* what get_best_token returned or raised
    _recent_usage,         \* SmartTokenAllocator._recent_usage
    _token_managers,       \* ids with a cached manager
    upstream_error,        \* <<body>> of the upstream's error response, or <<>>
    client_response        \* <<the JSON error response sent to the client>>, or <<>>

alloc_vars == <<credentials, custom_api_accounts, self_use_enabled, request,
                allocation, _recent_usage, _token_managers, upstream_error,
                client_response>>

\* The health checker (health_checker.py), the per-credential records of
\* user_db it writes, and the sequence of requests served from the pool.
VARIABLES
    health_round,   \* check_all_tokens: its position and the round's history
    last_check,     \* id -> what record_health_check recorded last
    token_usage,    \* id -> success_count, fail_count
    served,         \* id -> requests answered through the credential, by outcome
    request_phase   \* requests begun, and whether this one's outcome is recorded

pool_vars == <<health_round, last_check, token_usage, served, request_phase>>

\* The delegation of a request to an external-API account
\* (custom_api/handler.py).
VARIABLES
    api_format,       \* account["format"]: "openai" or "claude"
    custom_pc,        \* "idle", "sending", "sleeping", "done", "raised" or
                      \* "cancelled"
    retry_count,      \* openai_byte_stream: retry_count
    custom_requests,  \* the responses to the outbound requests, in order
    custom_delays,    \* the delays slept between them, in seconds
    custom_events,    \* what was yielded to the client
    custom_call       \* _handle_custom_api: request_data.stream, and the
                      \* calls of on_success and of on_fail

custom_vars == <<api_format, custom_pc, retry_count, custom_requests,
                 custom_delays, custom_events, custom_call>>

\* The manager cache (auth_cache.py) and the tasks that call it.
VARIABLES
    max_size,       \* AuthManagerCache.max_size
    cache,          \* AuthManagerCache.cache: entries, least recently used first
    lock,           \* AuthManagerCache.lock: 0 when free, else the holding task
    cache_tasks,    \* task -> its call and its position in it
    next_manager,   \* the number of KiroAuthManager instances created
    cache_log       \* the completed calls, in order of completion

cache_vars == <<max_size, cache, lock, cache_tasks, next_manager, cache_log>>

\* The payload builder (converters.py build_kiro_payload) and its request.
VARIABLES
    messages,          \* request_data.messages
    conv_pc,           \* "request", "built", or "error" after the ValueError
    merged_messages,   \* build_kiro_payload's merged_messages
    history,           \* build_kiro_payload's history
    current_content    \* the content of currentMessage.userInputMessage

conv_vars == <<messages, conv_pc, merged_messages, history, current_content>>

\* The token accounting at the end of a stream (streaming.py
\* _calculate_usage_tokens, buffered_streaming.py _finalize_events).
VARIABLES
    usage_request,   \* the arguments, None for no percentage received
    usage_pc,        \* "idle", "response" or "reported"
    usage_info       \* what is reported to the client

usage_vars == <<usage_request, usage_pc, usage_info>>

\* The OpenAI-to-Claude stream converter (custom_api/converter.py).
VARIABLES
    openai_state,   \* OpenAIStreamState, with the events yielded
    openai_lines,   \* the lines of the upstream body read so far
    openai_pc       \* "idle", "streaming" or "done"

openai_vars == <<openai_state, openai_lines, openai_pc>>

\* The components that follow the payload builder.
more_vars == <<usage_vars, openai_vars>>

\* The components that follow the allocator.
rest_vars == <<pool_vars, custom_vars, cache_vars, conv_vars, more_vars>>

\* Everything that is not one of the stream generators' variables, of the
\* parsers' variables, of the allocator's variables.
beside_stream == <<parser_vars, alloc_vars, rest_vars>>

beside_parser == <<stream_vars, alloc_vars, rest_vars>>

beside_alloc == <<stream_vars, parser_vars, rest_vars>>

\* Everything that is not of the allocator or of the health checker.
beside_pool == <<stream_vars, parser_vars, custom_vars, cache_vars, conv_vars,
                 more_vars>>

\* Everything but the delegation's variables, everything but the cache's.
beside_custom == <<stream_vars, parser_vars, alloc_vars, pool_vars, cache_vars,
                   conv_vars, more_vars>>

beside_cache == <<stream_vars, parser_vars, alloc_vars, pool_vars, custom_vars,
                  conv_vars, more_vars>>

\* Everything but the payload builder's variables.
beside_conv == <<stream_vars, parser_vars, alloc_vars, pool_vars, custom_vars,
                 cache_vars, more_vars>>

\* The components before the token accounting.
earlier_vars == <<stream_vars, parser_vars, alloc_vars, pool_vars, custom_vars,
                  cache_vars, conv_vars>>

beside_usage == <<earlier_vars, openai_vars>>

beside_openai == <<earlier_vars, usage_vars>>

vars == <<stream_vars, beside_stream>>

(***************************************************************************)
(* Bounds of the model.                                                    *)
(***************************************************************************)
MaxChunks == 2        \* upstream chunks read per response
MaxToolCalls == 1     \* tool calls collected by the parser per response
MaxPings == 2         \* pings sent per buffered request
MaxRetriesBound == 2  \* largest max_retries a request is configured with

(***************************************************************************)
(* Program constants.                                                      *)
(***************************************************************************)
max_consecutive_timeouts == 3
PING_INTERVAL_SECONDS == 25
None == -1

THINKING_START_TAG == <<"<", "t", "h", "i", "n", "k", "i", "n", "g", ">">>
THINKING_END_TAG == <<"<", "/", "t", "h", "i", "n", "k", "i", "n", "g", ">">>

(***************************************************************************)
(* Text helpers: str.find, and slices.                                     *)
(***************************************************************************)
MinOf(S) == CHOOSE m \in S : \A n \in S : m <= n

MaxOf(S) == CHOOSE m \in S : \A n \in S : m >= n

\* buffer.find(tag): 0-based offset of the first occurrence, -1 when absent.
Find(buffer, tag) ==
    LET hits == {i \in 0..(Len(buffer) - Len(tag)) :
                    SubSeq(buffer, i + 1, i + Len(tag)) = tag}
    IN  IF hits = {} THEN -1 ELSE MinOf(hits)

\* buffer[:n] and buffer[n:]
Take(buffer, n) == SubSeq(buffer, 1, n)

Drop(buffer, n) == SubSeq(buffer, n + 1, Len(buffer))

\* Variant that never holds a partial tag back.
_pending_tag_suffix_none(buffer, tag) == 0

\* Length of the longest proper prefix of tag that ends buffer (0: none).
_pending_tag_suffix(buffer, tag) ==
    LET max_len == IF Len(buffer) < Len(tag) - 1 THEN Len(buffer) ELSE Len(tag) - 1
        fits == {length \in 1..max_len :
                    Drop(buffer, Len(buffer) - length) = Take(tag, length)}
    IN  IF fits = {} THEN 0 ELSE MaxOf(fits)

(***************************************************************************)
(* ThinkingStreamHandler.  A handler state is                              *)
(* [in_thinking_block, thinking_buffer]; every method returns the events   *)
(* it produced and the state it leaves.                                    *)
(***************************************************************************)
TE(type, content, action) == [type |-> type, content |-> content, action |-> action]

HState(in_block, buffer) == [in_thinking_block |-> in_block, thinking_buffer |-> buffer]

_process_text_mode(h) ==
    LET buf == h.thinking_buffer
        think_start == Find(buf, THINKING_START_TAG)
    IN  IF think_start = -1
        THEN LET pending == _pending_tag_suffix(buf, THINKING_START_TAG)
                 emit_len == Len(buf) - pending
             IN  [events |-> IF emit_len > 0
                             THEN <<TE("text", Take(buf, emit_len), "delta")>>
                             ELSE <<>>,
                  h |-> HState(FALSE, Drop(buf, emit_len))]
        ELSE [events |-> (IF think_start > 0
                          THEN <<TE("text", Take(buf, think_start), "delta")>>
                          ELSE <<>>)
                         \o <<TE("thinking", <<>>, "start")>>,
              h |-> HState(TRUE, Drop(buf, think_start + Len(THINKING_START_TAG)))]

_process_thinking_mode(h) ==
    LET buf == h.thinking_buffer
        think_end == Find(buf, THINKING_END_TAG)
    IN  IF think_end = -1
        THEN LET pending == _pending_tag_suffix(buf, THINKING_END_TAG)
                 emit_len == Len(buf) - pending
             IN  [events |-> IF emit_len > 0
                             THEN <<TE("thinking", Take(buf, emit_len), "delta")>>
                             ELSE <<>>,
                  h |-> HState(TRUE, Drop(buf, emit_len))]
        ELSE [events |-> (IF think_end > 0
                          THEN <<TE("thinking", Take(buf, think_end), "delta")>>
                          ELSE <<>>)
                         \o <<TE("thinking", <<>>, "stop")>>,
              h |-> HState(FALSE, Drop(buf, think_end + Len(THINKING_END_TAG)))]

\* The while loop of process_content: one mode step per round, until the
\* buffer is empty or a round produced no event.
RECURSIVE process_loop(_, _)
process_loop(h, events) ==
    IF h.thinking_buffer = <<>>
    THEN [events |-> events, h |-> h]
    ELSE LET part == IF ~h.in_thinking_block
                     THEN _process_text_mode(h)
                     ELSE _process_thinking_mode(h)
         IN  IF part.events = <<>>
             THEN [events |-> events, h |-> part.h]
             ELSE process_loop(part.h, events \o part.events)

process_content(enabled, h, content) ==
    IF ~enabled
    THEN [events |-> <<TE("text", content, "delta")>>, h |-> h]
    ELSE process_loop(HState(h.in_thinking_block, h.thinking_buffer \o content), <<>>)

\* Variant of flush that throws the buffered rest away.
flush_discards(h) == [events |-> <<>>, h |-> HState(h.in_thinking_block, <<>>)]

flush(h) ==
    IF h.thinking_buffer # <<>>
    THEN [events |-> <<TE(IF h.in_thinking_block THEN "thinking" ELSE "text",
                          h.thinking_buffer, "delta")>>,
          h |-> HState(h.in_thinking_block, <<>>)]
    ELSE [events |-> <<>>, h |-> h]

(***************************************************************************)
(* KiroThinkingTagParser (thinking_parser.py).  A parser state is          *)
(* [_buffer, _is_thinking_mode]; a segment is [type, content].             *)
(***************************************************************************)
TextSegment(type, content) == [type |-> type, content |-> content]

KState(buffer, mode) == [_buffer |-> buffer, _is_thinking_mode |-> mode]

\* text.endswith(suffix)
EndsWith(text, suffix) ==
    /\ Len(suffix) <= Len(text)
    /\ Drop(text, Len(text) - Len(suffix)) = suffix

\* The first i in range(1, len(tag)) with text.endswith(tag[:i]), else 0.
_check_partial_tag(text, tag) ==
    LET fits == {i \in 1..(Len(tag) - 1) : EndsWith(text, Take(tag, i))}
    IN  IF fits = {} THEN 0 ELSE MinOf(fits)

RECURSIVE _parse_buffer(_, _)
_parse_buffer(k, segments) ==
    IF k._buffer = <<>>
    THEN [segments |-> segments, k |-> k]
    ELSE LET buf == k._buffer
             mode == k._is_thinking_mode
             tag == IF mode THEN THINKING_END_TAG ELSE THINKING_START_TAG
             type == IF mode THEN "thinking" ELSE "text"
             idx == Find(buf, tag)
         IN  IF idx # -1
             THEN _parse_buffer(KState(Drop(buf, idx + Len(tag)), ~mode),
                                segments \o (IF idx > 0
                                             THEN <<TextSegment(type, Take(buf, idx))>>
                                             ELSE <<>>))
             ELSE LET partial_match == _check_partial_tag(buf, tag)
                      safe_len == Len(buf) - partial_match
                  IN  IF partial_match > 0
                      THEN [segments |-> segments \o
                                (IF safe_len > 0
                                 THEN <<TextSegment(type, Take(buf, safe_len))>>
                                 ELSE <<>>),
                            k |-> KState(Drop(buf, safe_len), mode)]
                      ELSE [segments |-> segments \o <<TextSegment(type, buf)>>,
                            k |-> KState(<<>>, mode)]

push_and_parse(k, text) == _parse_buffer(KState(k._buffer \o text, k._is_thinking_mode), <<>>)

kiro_flush(k) ==
    IF k._buffer # <<>>
    THEN [segments |-> <<TextSegment(IF k._is_thinking_mode THEN "thinking" ELSE "text",
                                     k._buffer)>>,
          k |-> KState(<<>>, k._is_thinking_mode)]
    ELSE [segments |-> <<>>, k |-> k]

\* No request is being routed: empty tables, nothing allocated.
AllocIdle ==
    /\ credentials = <<>>
    /\ custom_api_accounts = <<>>
    /\ self_use_enabled = FALSE
    /\ request = [user_id |-> None, model |-> <<>>, donated_token_id |-> None]
    /\ allocation = [type |-> "none", id |-> None]
    /\ _recent_usage = <<>>
    /\ _token_managers = {}
    /\ upstream_error = <<>>
    /\ client_response = <<>>

\* No health-check round has run and no request was served.
PoolIdle ==
    /\ health_round = [pc |-> "idle", rounds |-> 0, tokens |-> <<>>,
                       snapshot |-> {}, outcomes |-> {}]
    /\ last_check = <<>>
    /\ token_usage = <<>>
    /\ served = <<>>
    /\ request_phase = [begun |-> 0, recorded |-> FALSE]

\* No request is delegated.
CustomIdle ==
    /\ api_format = "openai"
    /\ custom_pc = "idle"
    /\ retry_count = 0
    /\ custom_requests = <<>>
    /\ custom_delays = <<>>
    /\ custom_events = <<>>
    /\ custom_call = [stream |-> FALSE, on_success |-> 0, on_fail |-> 0]

\* The manager cache as auth_cache.py creates it, and no caller.
CacheIdle ==
    /\ max_size = 100
    /\ cache = <<>>
    /\ lock = 0
    /\ cache_tasks = <<>>
    /\ next_manager = 0
    /\ cache_log = <<>>

\* No request at the payload builder.
ConvIdle ==
    /\ messages = <<>>
    /\ conv_pc = "idle"
    /\ merged_messages = <<>>
    /\ history = <<>>
    /\ current_content = <<>>

\* No response to account for.
UsageIdle ==
    /\ usage_request = <<>>
    /\ usage_pc = "idle"
    /\ usage_info = <<>>

\* No stream at the converter.
OpenaiIdle ==
    /\ openai_state = <<>>
    /\ openai_lines = <<>>
    /\ openai_pc = "idle"

MoreIdle == UsageIdle /\ OpenaiIdle

RestIdle == PoolIdle /\ CustomIdle /\ CacheIdle /\ ConvIdle /\ MoreIdle

\* The parsers before any input.
ParserIdle ==
    /\ parse_pc = "idle"
    /\ parse_rest = <<>>
    /\ parse_fed = <<>>
    /\ handler_enabled = TRUE
    /\ handler = HState(FALSE, <<>>)
    /\ handler_events = <<>>
    /\ kiro = KState(<<>>, FALSE)
    /\ kiro_segments = <<>>

(***************************************************************************)
(* SSE events.  index is -1 for events that carry none, input_tokens is    *)
(* None except on message_start.                                           *)
(***************************************************************************)
SSE(type, index, block, text, tokens) ==
    [type |-> type, index |-> index, block |-> block, text |-> text,
     input_tokens |-> tokens]

\* State of the block emitter: the three locals of the generator (the three
\* private fields of the buffered handler) and the events produced so far.
Emitter(index, text_started, thinking_started, events) ==
    [content_block_index |-> index, text_block_started |-> text_started,
     thinking_block_started |-> thinking_started, events |-> events]

(***************************************************************************)
(* stream_kiro_to_anthropic: what one ThinkingStreamHandler event makes    *)
(* the generator yield.                                                    *)
(***************************************************************************)
\* Variant that starts a thinking block without closing an open text block.
anthropic_thinking_event_text_left_open(st, te) ==
    IF te.type = "thinking" /\ te.action = "start"
    THEN LET closed == st
         IN  Emitter(closed.content_block_index, closed.text_block_started, TRUE,
                     Append(closed.events,
                            SSE("content_block_start", closed.content_block_index,
                                "thinking", <<>>, None)))
    ELSE IF te.type = "thinking" /\ te.action = "delta" /\ te.content # <<>>
    THEN IF st.thinking_block_started
         THEN Emitter(st.content_block_index, st.text_block_started, TRUE,
                      Append(st.events,
                             SSE("content_block_delta", st.content_block_index,
                                 "thinking", te.content, None)))
         ELSE st
    ELSE IF te.type = "thinking" /\ te.action = "stop"
    THEN IF st.thinking_block_started
         THEN Emitter(st.content_block_index + 1, st.text_block_started, FALSE,
                      Append(st.events,
                             SSE("content_block_stop", st.content_block_index,
                                 "", <<>>, None)))
         ELSE st
    ELSE IF te.type = "text" /\ te.content # <<>>
    THEN LET started == IF ~st.text_block_started
                        THEN Append(st.events,
                                    SSE("content_block_start", st.content_block_index,
                                        "text", <<>>, None))
                        ELSE st.events
         IN  Emitter(st.content_block_index, TRUE, st.thinking_block_started,
                     Append(started,
                            SSE("content_block_delta", st.content_block_index,
                                "text", te.content, None)))
    ELSE st

anthropic_thinking_event(st, te) ==
    IF te.type = "thinking" /\ te.action = "start"
    THEN LET closed == IF st.text_block_started
                       THEN Emitter(st.content_block_index + 1, FALSE,
                                    st.thinking_block_started,
                                    Append(st.events,
                                           SSE("content_block_stop",
                                               st.content_block_index, "", <<>>, None)))
                       ELSE st
         IN  Emitter(closed.content_block_index, closed.text_block_started, TRUE,
                     Append(closed.events,
                            SSE("content_block_start", closed.content_block_index,
                                "thinking", <<>>, None)))
    ELSE IF te.type = "thinking" /\ te.action = "delta" /\ te.content # <<>>
    THEN IF st.thinking_block_started
         THEN Emitter(st.content_block_index, st.text_block_started, TRUE,
                      Append(st.events,
                             SSE("content_block_delta", st.content_block_index,
                                 "thinking", te.content, None)))
         ELSE st
    ELSE IF te.type = "thinking" /\ te.action = "stop"
    THEN IF st.thinking_block_started
         THEN Emitter(st.content_block_index + 1, st.text_block_started, FALSE,
                      Append(st.events,
                             SSE("content_block_stop", st.content_block_index,
                                 "", <<>>, None)))
         ELSE st
    ELSE IF te.type = "text" /\ te.content # <<>>
    THEN LET started == IF ~st.text_block_started
                        THEN Append(st.events,
                                    SSE("content_block_start", st.content_block_index,
                                        "text", <<>>, None))
                        ELSE st.events
         IN  Emitter(st.content_block_index, TRUE, st.thinking_block_started,
                     Append(started,
                            SSE("content_block_delta", st.content_block_index,
                                "text", te.content, None)))
    ELSE st

RECURSIVE anthropic_thinking_events(_, _)
anthropic_thinking_events(st, tes) ==
    IF tes = <<>> THEN st
    ELSE anthropic_thinking_events(anthropic_thinking_event(st, Head(tes)), Tail(tes))

\* The loop over thinking_handler.flush() after the read loop.
anthropic_flush_event(st, te) ==
    IF te.type = "thinking" /\ te.content # <<>> /\ st.thinking_block_started
    THEN Emitter(st.content_block_index, st.text_block_started, TRUE,
                 Append(st.events,
                        SSE("content_block_delta", st.content_block_index,
                            "thinking", te.content, None)))
    ELSE IF te.type = "text" /\ te.content # <<>>
    THEN LET started == IF ~st.text_block_started
                        THEN Append(st.events,
                                    SSE("content_block_start", st.content_block_index,
                                        "text", <<>>, None))
                        ELSE st.events
         IN  Emitter(st.content_block_index, TRUE, st.thinking_block_started,
                     Append(started,
                            SSE("content_block_delta", st.content_block_index,
                                "text", te.content, None)))
    ELSE st

RECURSIVE anthropic_flush_events(_, _)
anthropic_flush_events(st, tes) ==
    IF tes = <<>> THEN st
    ELSE anthropic_flush_events(anthropic_flush_event(st, Head(tes)), Tail(tes))

\* "Close all unclosed blocks": the thinking block, then the text block.
anthropic_close_blocks(st) ==
    LET a == IF st.thinking_block_started
             THEN Emitter(st.content_block_index + 1, st.text_block_started,
                          st.thinking_block_started,
                          Append(st.events,
                                 SSE("content_block_stop", st.content_block_index,
                                     "", <<>>, None)))
             ELSE st
    IN  IF a.text_block_started
        THEN Emitter(a.content_block_index + 1, a.text_block_started,
                     a.thinking_block_started,
                     Append(a.events,
                            SSE("content_block_stop", a.content_block_index,
                                "", <<>>, None)))
        ELSE a

\* One tool_use block per collected tool call; a tool call is modelled by
\* whether its parsed input is non-empty (the input_json_delta is sent).
RECURSIVE anthropic_tool_blocks(_, _)
anthropic_tool_blocks(st, tool_calls) ==
    IF tool_calls = <<>> THEN st
    ELSE LET i == st.content_block_index
             start == Append(st.events, SSE("content_block_start", i, "tool_use", <<>>, None))
             delta == IF Head(tool_calls)
                      THEN Append(start, SSE("content_block_delta", i, "tool_use", <<>>, None))
                      ELSE start
             stop == Append(delta, SSE("content_block_stop", i, "", <<>>, None))
         IN  anthropic_tool_blocks(
                 Emitter(i + 1, st.text_block_started, st.thinking_block_started, stop),
                 Tail(tool_calls))

\* message_delta then message_stop.
anthropic_message_end(st) ==
    Emitter(st.content_block_index, st.text_block_started, st.thinking_block_started,
            st.events \o <<SSE("message_delta", -1, "", <<>>, None),
                           SSE("message_stop", -1, "", <<>>, None)>>)

\* Everything stream_kiro_to_anthropic yields after StopAsyncIteration.
anthropic_finish(st, flush_events, tool_calls) ==
    anthropic_message_end(
        anthropic_tool_blocks(
            anthropic_close_blocks(anthropic_flush_events(st, flush_events)),
            tool_calls))

(***************************************************************************)
(* BufferedAnthropicStreamHandler: the same block logic, writing to        *)
(* event_buffer (st.events) instead of yielding.                           *)
(***************************************************************************)
_buffer_event(st, event) ==
    Emitter(st.content_block_index, st.text_block_started,
            st.thinking_block_started, Append(st.events, event))

\* Mutant: the text block is closed without advancing the block index.
_process_thinking_event_same_index(st, te) ==
    IF te.action = "start"
    THEN LET closed == IF st.text_block_started
                       THEN LET b == _buffer_event(st, SSE("content_block_stop",
                                                           st.content_block_index,
                                                           "", <<>>, None))
                            IN  Emitter(b.content_block_index, FALSE,
                                        b.thinking_block_started, b.events)
                       ELSE st
             b2 == _buffer_event(closed, SSE("content_block_start",
                                             closed.content_block_index,
                                             "thinking", <<>>, None))
         IN  Emitter(b2.content_block_index, b2.text_block_started, TRUE, b2.events)
    ELSE IF te.action = "delta" /\ te.content # <<>>
    THEN IF st.thinking_block_started
         THEN _buffer_event(st, SSE("content_block_delta", st.content_block_index,
                                    "thinking", te.content, None))
         ELSE st
    ELSE IF te.action = "stop"
    THEN IF st.thinking_block_started
         THEN LET b == _buffer_event(st, SSE("content_block_stop",
                                             st.content_block_index, "", <<>>, None))
              IN  Emitter(b.content_block_index + 1, b.text_block_started, FALSE,
                          b.events)
         ELSE st
    ELSE st

_process_thinking_event(st, te) ==
    IF te.action = "start"
    THEN LET closed == IF st.text_block_started
                       THEN LET b == _buffer_event(st, SSE("content_block_stop",
                                                           st.content_block_index,
                                                           "", <<>>, None))
                            IN  Emitter(b.content_block_index + 1, FALSE,
                                        b.thinking_block_started, b.events)
                       ELSE st
             b2 == _buffer_event(closed, SSE("content_block_start",
                                             closed.content_block_index,
                                             "thinking", <<>>, None))
         IN  Emitter(b2.content_block_index, b2.text_block_started, TRUE, b2.events)
    ELSE IF te.action = "delta" /\ te.content # <<>>
    THEN IF st.thinking_block_started
         THEN _buffer_event(st, SSE("content_block_delta", st.content_block_index,
                                    "thinking", te.content, None))
         ELSE st
    ELSE IF te.action = "stop"
    THEN IF st.thinking_block_started
         THEN LET b == _buffer_event(st, SSE("content_block_stop",
                                             st.content_block_index, "", <<>>, None))
              IN  Emitter(b.content_block_index + 1, b.text_block_started, FALSE,
                          b.events)
         ELSE st
    ELSE st

_process_text_event(st, te) ==
    LET started == IF ~st.text_block_started
                   THEN LET b == _buffer_event(st, SSE("content_block_start",
                                                       st.content_block_index,
                                                       "text", <<>>, None))
                        IN  Emitter(b.content_block_index, TRUE,
                                    b.thinking_block_started, b.events)
                   ELSE st
    IN  _buffer_event(started, SSE("content_block_delta", started.content_block_index,
                                   "text", te.content, None))

\* The loop of _process_event over the thinking handler's events.
RECURSIVE buffered_thinking_events(_, _)
buffered_thinking_events(st, tes) ==
    IF tes = <<>> THEN st
    ELSE LET te == Head(tes)
             nxt == IF te.type = "thinking" THEN _process_thinking_event(st, te)
                    ELSE IF te.type = "text" /\ te.content # <<>>
                    THEN _process_text_event(st, te)
                    ELSE st
         IN  buffered_thinking_events(nxt, Tail(tes))

\* _finalize_events, first loop: the events of thinking_handler.flush().
RECURSIVE buffered_flush_events(_, _)
buffered_flush_events(st, tes) ==
    IF tes = <<>> THEN st
    ELSE LET te == Head(tes)
             nxt == IF te.type = "thinking" /\ te.content # <<>>
                       /\ st.thinking_block_started
                    THEN _buffer_event(st, SSE("content_block_delta",
                                               st.content_block_index,
                                               "thinking", te.content, None))
                    ELSE IF te.type = "text" /\ te.content # <<>>
                    THEN _process_text_event(st, te)
                    ELSE st
         IN  buffered_flush_events(nxt, Tail(tes))

\* _finalize_events, "Close open blocks".
buffered_close_blocks(st) ==
    LET a == IF st.thinking_block_started
             THEN LET b == _buffer_event(st, SSE("content_block_stop",
                                                 st.content_block_index, "", <<>>, None))
                  IN  Emitter(b.content_block_index + 1, b.text_block_started,
                              b.thinking_block_started, b.events)
             ELSE st
    IN  IF a.text_block_started
        THEN LET b == _buffer_event(a, SSE("content_block_stop",
                                           a.content_block_index, "", <<>>, None))
             IN  Emitter(b.content_block_index + 1, b.text_block_started,
                         b.thinking_block_started, b.events)
        ELSE a

\* _finalize_events, "Add tool_use blocks".
RECURSIVE buffered_tool_blocks(_, _)
buffered_tool_blocks(st, tool_calls) ==
    IF tool_calls = <<>> THEN st
    ELSE LET i == st.content_block_index
             start == _buffer_event(st, SSE("content_block_start", i, "tool_use", <<>>, None))
             delta == IF Head(tool_calls)
                      THEN _buffer_event(start, SSE("content_block_delta", i,
                                                    "tool_use", <<>>, None))
                      ELSE start
             stop == _buffer_event(delta, SSE("content_block_stop", i, "", <<>>, None))
         IN  buffered_tool_blocks(
                 Emitter(i + 1, stop.text_block_started, stop.thinking_block_started,
                         stop.events),
                 Tail(tool_calls))

\* int((percentage / 100) * max_input_tokens), the percentage in tenths of a
\* percent.  For the percentages of the model the float product is exact.
tokens_from_percentage(p10, max_tokens) == (p10 * max_tokens) \div 1000

\* Mutant: the percentage is used whenever an event set it, also when it is 0.
accurate_input_tokens_any_percentage(percentage, max_tokens, fallback_tokens) ==
    IF percentage # None
    THEN tokens_from_percentage(percentage, max_tokens)
    ELSE fallback_tokens

\* _finalize_events, "Calculate accurate input_tokens".
accurate_input_tokens(percentage, max_tokens, fallback_tokens) ==
    IF percentage # None /\ percentage > 0
    THEN tokens_from_percentage(percentage, max_tokens)
    ELSE fallback_tokens

\* _finalize_events as a whole: the buffer it leaves.
_finalize_events(st, flush_events, tool_calls) ==
    LET body == buffered_tool_blocks(
                    buffered_close_blocks(buffered_flush_events(st, flush_events)),
                    tool_calls)
        delta == _buffer_event(body, SSE("message_delta", -1, "", <<>>, None))
    IN  _buffer_event(delta, SSE("message_stop", -1, "", <<>>, None))

\* Mutant: the buffer is flushed before message_start.
generate_all_events_start_last(st, flush_events, tool_calls, percentage, max_tokens, fallback_tokens) ==
    _finalize_events(st, flush_events, tool_calls).events
    \o <<SSE("message_start", -1, "", <<>>,
             accurate_input_tokens(percentage, max_tokens, fallback_tokens))>>

\* generate_all_events: message_start with the accurate count, then the buffer.
generate_all_events(st, flush_events, tool_calls, percentage, max_tokens, fallback_tokens) ==
    <<SSE("message_start", -1, "", <<>>,
          accurate_input_tokens(percentage, max_tokens, fallback_tokens))>>
    \o _finalize_events(st, flush_events, tool_calls).events

(***************************************************************************)
(* Inputs.                                                                 *)
(***************************************************************************)
Engines == {"anthropic", "buffered", "retry"}

\* Content of one upstream content event.
ContentChunks ==
    { <<"a">>,
      <<"a">> \o THINKING_START_TAG \o <<"b">>,
      THINKING_END_TAG \o <<"c">>,
      <<"a">> \o Take(THINKING_START_TAG, 4),
      Drop(THINKING_START_TAG, 4) \o <<"b">> \o THINKING_END_TAG \o <<"c">> }

\* contextUsagePercentage values, in tenths of a percent: 0 % and 10.0 %.
Percentages == {0, 100}

\* Local tokenizer counts of a request, and the model's input limit.
RequestTokens == {42}

ModelMaxInputTokens == {200000}

\* The tool calls the parser has collected at the end of a stream: for each,
\* whether its input is non-empty.
ToolCallLists ==
    UNION {[1..n -> BOOLEAN] : n \in 0..MaxToolCalls}

Hist0 ==
    [nread |-> 0,          \* chunks read from the current response
     run |-> 0,            \* read timeouts in a row on the current response
     pings |-> 0,          \* pings sent
     first_byte |-> FALSE, \* some attempt received its first byte
     failure |-> "none",   \* what ended the reading: "timeout", "transport"
     ctx_last |-> None,    \* the last context_usage percentage received
     requests |-> 0,       \* calls of make_request
     reissued |-> FALSE,   \* make_request was called after a first byte
     produced |-> <<>>,    \* buffered mode: events in the order buffered
     contents |-> <<>>]    \* the content events read, in order

Init ==
    /\ engine \in Engines
    /\ pc = "start"
    /\ out = <<>>
    /\ thinking_enabled \in (IF engine = "retry" THEN {FALSE} ELSE BOOLEAN)
    /\ in_thinking_block = FALSE
    /\ thinking_buffer = <<>>
    /\ content_block_index = 0
    /\ text_block_started = FALSE
    /\ thinking_block_started = FALSE
    /\ context_usage_percentage = None
    /\ consecutive_timeouts = 0
    /\ event_buffer = <<>>
    /\ stream_task = "none"
    /\ since_ping = 0
    /\ responses = IF engine = "retry" THEN <<>> ELSE <<"open">>
    /\ attempt = 0
    /\ max_retries \in (IF engine = "retry" THEN 0..MaxRetriesBound ELSE {0})
    /\ request_tokens \in RequestTokens
    /\ max_input_tokens \in ModelMaxInputTokens
    /\ raised = "none"
    /\ hist = Hist0
    /\ ParserIdle
    /\ AllocIdle
    /\ RestIdle

(***************************************************************************)
(* Shared pieces of the three read loops.                                  *)
(***************************************************************************)
\* response.aclose() on the current response.
aclose(rs) == IF rs = <<>> THEN rs ELSE [rs EXCEPT ![Len(rs)] = "closed"]

\* Mutant: "<" for "<=", one timeout fewer is tolerated.
timeout_tolerated_strict(n) == n < max_consecutive_timeouts

\* "if consecutive_timeouts <= max_consecutive_timeouts: continue / else: raise",
\* evaluated after the increment.
timeout_tolerated(n) == n <= max_consecutive_timeouts

Handler == HState(in_thinking_block, thinking_buffer)

Blocks(events) ==
    Emitter(content_block_index, text_block_started, thinking_block_started, events)

SetHandler(h) ==
    /\ in_thinking_block' = h.in_thinking_block
    /\ thinking_buffer' = h.thinking_buffer

SetBlocks(st) ==
    /\ content_block_index' = st.content_block_index
    /\ text_block_started' = st.text_block_started
    /\ thinking_block_started' = st.thinking_block_started

\* The history after a chunk was read, and after a read timed out.
after_read(h) == [h EXCEPT !.nread = @ + 1, !.run = 0]

after_timeout(h) == [h EXCEPT !.run = @ + 1]

\* Variant that ends a failed stream like a completed one.
error_event_as_message_stop == SSE("message_stop", -1, "", <<>>, None)

\* The error event; block holds error.type.
error_event == SSE("error", -1, "api_error", <<>>, None)

(***************************************************************************)
(* Engine "anthropic": stream_kiro_to_anthropic.                           *)
(***************************************************************************)
\* Up to the first read: message_start with the pre-calculated input tokens.
AnthStart ==
    /\ engine = "anthropic" /\ pc = "start"
    /\ out' = <<SSE("message_start", -1, "", <<>>, request_tokens)>>
    /\ pc' = "reading"
    /\ UNCHANGED <<beside_stream, engine, thinking_enabled, in_thinking_block, thinking_buffer,
                   content_block_index, text_block_started, thinking_block_started,
                   context_usage_percentage, consecutive_timeouts, event_buffer,
                   stream_task, since_ping, responses, attempt, max_retries,
                   request_tokens, max_input_tokens, raised, hist>>

\* A chunk holding a content event.
AnthContent ==
    /\ engine = "anthropic" /\ pc = "reading" /\ hist.nread < MaxChunks
    /\ \E content \in ContentChunks :
          LET r == process_content(thinking_enabled, Handler, content)
              st == anthropic_thinking_events(Blocks(<<>>), r.events)
          IN  /\ SetHandler(r.h)
              /\ SetBlocks(st)
              /\ out' = out \o st.events
              /\ hist' = [after_read(hist) EXCEPT !.contents = Append(@, content)]
    /\ consecutive_timeouts' = 0
    /\ UNCHANGED <<beside_stream, engine, pc, thinking_enabled, context_usage_percentage,
                   event_buffer, stream_task, since_ping, responses, attempt,
                   max_retries, request_tokens, max_input_tokens, raised>>

\* A chunk holding a context_usage event.
AnthContextUsage ==
    /\ engine = "anthropic" /\ pc = "reading" /\ hist.nread < MaxChunks
    /\ \E p \in Percentages :
          /\ context_usage_percentage' = p
          /\ hist' = [after_read(hist) EXCEPT !.ctx_last = p]
    /\ consecutive_timeouts' = 0
    /\ UNCHANGED <<beside_stream, engine, pc, out, thinking_enabled, in_thinking_block,
                   thinking_buffer, content_block_index, text_block_started,
                   thinking_block_started, event_buffer, stream_task, since_ping,
                   responses, attempt, max_retries, request_tokens,
                   max_input_tokens, raised>>

\* A chunk holding a usage event, or no complete event.
AnthOther ==
    /\ engine = "anthropic" /\ pc = "reading" /\ hist.nread < MaxChunks
    /\ consecutive_timeouts' = 0
    /\ hist' = after_read(hist)
    /\ UNCHANGED <<beside_stream, engine, pc, out, thinking_enabled, in_thinking_block,
                   thinking_buffer, content_block_index, text_block_started,
                   thinking_block_started, context_usage_percentage, event_buffer,
                   stream_task, since_ping, responses, attempt, max_retries,
                   request_tokens, max_input_tokens, raised>>

\* StreamReadTimeoutError from _read_chunk_with_timeout: tolerated, or raised
\* into "except Exception" (error event) and "finally" (aclose).
AnthTimeout ==
    /\ engine = "anthropic" /\ pc = "reading"
    /\ consecutive_timeouts' = consecutive_timeouts + 1
    /\ IF timeout_tolerated(consecutive_timeouts + 1)
       THEN /\ hist' = after_timeout(hist)
            /\ UNCHANGED <<pc, out, responses>>
       ELSE /\ hist' = [after_timeout(hist) EXCEPT !.failure = "timeout"]
            /\ out' = Append(out, error_event)
            /\ responses' = aclose(responses)
            /\ pc' = "failed"
    /\ UNCHANGED <<beside_stream, engine, thinking_enabled, in_thinking_block, thinking_buffer,
                   content_block_index, text_block_started, thinking_block_started,
                   context_usage_percentage, event_buffer, stream_task, since_ping,
                   attempt, max_retries, request_tokens, max_input_tokens, raised>>

\* Any other exception from the read (a transport error).
AnthTransportError ==
    /\ engine = "anthropic" /\ pc = "reading"
    /\ hist' = [hist EXCEPT !.failure = "transport"]
    /\ out' = Append(out, error_event)
    /\ responses' = aclose(responses)
    /\ pc' = "failed"
    /\ UNCHANGED <<beside_stream, engine, thinking_enabled, in_thinking_block, thinking_buffer,
                   content_block_index, text_block_started, thinking_block_started,
                   context_usage_percentage, consecutive_timeouts, event_buffer,
                   stream_task, since_ping, attempt, max_retries, request_tokens,
                   max_input_tokens, raised>>

\* StopAsyncIteration: flush, close the blocks, tool blocks, message_delta,
\* message_stop, and the finally clause.
AnthEnd ==
    /\ engine = "anthropic" /\ pc = "reading"
    /\ \E tool_calls \in ToolCallLists :
          LET f == flush(Handler)
              st == anthropic_finish(Blocks(<<>>), f.events, tool_calls)
          IN  /\ SetHandler(f.h)
              /\ SetBlocks(st)
              /\ out' = out \o st.events
    /\ responses' = aclose(responses)
    /\ pc' = "done"
    /\ UNCHANGED <<beside_stream, engine, thinking_enabled, context_usage_percentage,
                   consecutive_timeouts, event_buffer, stream_task, since_ping,
                   attempt, max_retries, request_tokens, max_input_tokens,
                   raised, hist>>

\* The client disconnects while the generator awaits a chunk: CancelledError
\* is no Exception, so only the finally clause runs.
AnthDisconnect ==
    /\ engine = "anthropic" /\ pc = "reading"
    /\ responses' = aclose(responses)
    /\ raised' = "CancelledError"
    /\ pc' = "cancelled"
    /\ UNCHANGED <<beside_stream, engine, out, thinking_enabled, in_thinking_block, thinking_buffer,
                   content_block_index, text_block_started, thinking_block_started,
                   context_usage_percentage, consecutive_timeouts, event_buffer,
                   stream_task, since_ping, attempt, max_retries, request_tokens,
                   max_input_tokens, hist>>

AnthNext ==
    \/ AnthStart
    \/ AnthContent
    \/ AnthContextUsage
    \/ AnthOther
    \/ AnthTimeout
    \/ AnthTransportError
    \/ AnthEnd
    \/ AnthDisconnect

(***************************************************************************)
(* Engine "buffered": stream_kiro_to_anthropic_buffered (the generator)    *)
(* and the task it creates, BufferedAnthropicStreamHandler.process_stream. *)
(***************************************************************************)
\* Mutant: the generator does not wait for the task.
task_done_always == TRUE

\* stream_task.done()
task_done == stream_task \in {"finished", "failed", "cancelled"}

\* Up to the while loop: the handler is built and the task created.
BufStart ==
    /\ engine = "buffered" /\ pc = "start"
    /\ stream_task' = "running"
    /\ since_ping' = 0
    /\ pc' = "waiting"
    /\ UNCHANGED <<beside_stream, engine, out, thinking_enabled, in_thinking_block, thinking_buffer,
                   content_block_index, text_block_started, thinking_block_started,
                   context_usage_percentage, consecutive_timeouts, event_buffer,
                   responses, attempt, max_retries, request_tokens,
                   max_input_tokens, raised, hist>>

\* process_stream reads a chunk holding a content event: _process_event.
TaskContent ==
    /\ stream_task = "running" /\ hist.nread < MaxChunks
    /\ \E content \in ContentChunks :
          LET r == process_content(thinking_enabled, Handler, content)
              st == buffered_thinking_events(Blocks(event_buffer), r.events)
          IN  /\ SetHandler(r.h)
              /\ SetBlocks(st)
              /\ event_buffer' = st.events
              /\ hist' = [after_read(hist) EXCEPT !.produced = st.events,
                                                  !.contents = Append(@, content)]
    /\ consecutive_timeouts' = 0
    /\ UNCHANGED <<beside_stream, engine, pc, out, thinking_enabled, context_usage_percentage,
                   stream_task, since_ping, responses, attempt, max_retries,
                   request_tokens, max_input_tokens, raised>>

TaskContextUsage ==
    /\ stream_task = "running" /\ hist.nread < MaxChunks
    /\ \E p \in Percentages :
          /\ context_usage_percentage' = p
          /\ hist' = [after_read(hist) EXCEPT !.ctx_last = p]
    /\ consecutive_timeouts' = 0
    /\ UNCHANGED <<beside_stream, engine, pc, out, thinking_enabled, in_thinking_block,
                   thinking_buffer, content_block_index, text_block_started,
                   thinking_block_started, event_buffer, stream_task, since_ping,
                   responses, attempt, max_retries, request_tokens,
                   max_input_tokens, raised>>

TaskOther ==
    /\ stream_task = "running" /\ hist.nread < MaxChunks
    /\ consecutive_timeouts' = 0
    /\ hist' = after_read(hist)
    /\ UNCHANGED <<beside_stream, engine, pc, out, thinking_enabled, in_thinking_block,
                   thinking_buffer, content_block_index, text_block_started,
                   thinking_block_started, context_usage_percentage, event_buffer,
                   stream_task, since_ping, responses, attempt, max_retries,
                   request_tokens, max_input_tokens, raised>>

\* StreamReadTimeoutError: tolerated, or raised out of the task through the
\* finally clause.
TaskTimeout ==
    /\ stream_task = "running"
    /\ consecutive_timeouts' = consecutive_timeouts + 1
    /\ IF timeout_tolerated(consecutive_timeouts + 1)
       THEN /\ hist' = after_timeout(hist)
            /\ UNCHANGED <<stream_task, responses>>
       ELSE /\ hist' = [after_timeout(hist) EXCEPT !.failure = "timeout"]
            /\ responses' = aclose(responses)
            /\ stream_task' = "failed"
    /\ UNCHANGED <<beside_stream, engine, pc, out, thinking_enabled, in_thinking_block,
                   thinking_buffer, content_block_index, text_block_started,
                   thinking_block_started, context_usage_percentage, event_buffer,
                   since_ping, attempt, max_retries, request_tokens,
                   max_input_tokens, raised>>

TaskTransportError ==
    /\ stream_task = "running"
    /\ hist' = [hist EXCEPT !.failure = "transport"]
    /\ responses' = aclose(responses)
    /\ stream_task' = "failed"
    /\ UNCHANGED <<beside_stream, engine, pc, out, thinking_enabled, in_thinking_block,
                   thinking_buffer, content_block_index, text_block_started,
                   thinking_block_started, context_usage_percentage,
                   consecutive_timeouts, event_buffer, since_ping, attempt,
                   max_retries, request_tokens, max_input_tokens, raised>>

\* StopAsyncIteration: the loop breaks, the finally clause closes the response.
TaskEnd ==
    /\ stream_task = "running"
    /\ responses' = aclose(responses)
    /\ stream_task' = "finished"
    /\ UNCHANGED <<beside_stream, engine, pc, out, thinking_enabled, in_thinking_block,
                   thinking_buffer, content_block_index, text_block_started,
                   thinking_block_started, context_usage_percentage,
                   consecutive_timeouts, event_buffer, since_ping, attempt,
                   max_retries, request_tokens, max_input_tokens, raised, hist>>

\* "while not stream_task.done():" found the task running: the generator
\* goes to sleep for a second.
BufSleep ==
    /\ engine = "buffered" /\ pc = "waiting" /\ ~task_done
    /\ hist.pings < MaxPings
    /\ pc' = "sleeping"
    /\ UNCHANGED <<beside_stream, engine, out, thinking_enabled, in_thinking_block, thinking_buffer,
                   content_block_index, text_block_started, thinking_block_started,
                   context_usage_percentage, consecutive_timeouts, event_buffer,
                   stream_task, since_ping, responses, attempt, max_retries,
                   request_tokens, max_input_tokens, raised, hist>>

\* Mutant: the ping waits until more than the interval has passed.
ping_due_after_interval(elapsed) == elapsed > PING_INTERVAL_SECONDS

\* The condition under which the loop sends a ping after the sleep.
ping_due(elapsed) == elapsed >= PING_INTERVAL_SECONDS

\* The sleep is over: a ping when the interval has passed.
BufWake ==
    /\ engine = "buffered" /\ pc = "sleeping"
    /\ IF ping_due(since_ping + 1)
       THEN /\ out' = Append(out, SSE("ping", -1, "", <<>>, None))
            /\ since_ping' = 0
            /\ hist' = [hist EXCEPT !.pings = @ + 1]
       ELSE /\ since_ping' = since_ping + 1
            /\ UNCHANGED <<out, hist>>
    /\ pc' = "waiting"
    /\ UNCHANGED <<beside_stream, engine, thinking_enabled, in_thinking_block, thinking_buffer,
                   content_block_index, text_block_started, thinking_block_started,
                   context_usage_percentage, consecutive_timeouts, event_buffer,
                   stream_task, responses, attempt, max_retries, request_tokens,
                   max_input_tokens, raised>>

\* The loop found the task done: "await stream_task", then either the error
\* event or generate_all_events.
BufJoin ==
    /\ engine = "buffered" /\ pc = "waiting" /\ task_done
    /\ since_ping' = 0
    /\ IF stream_task = "failed"
       THEN /\ out' = Append(out, error_event)
            /\ pc' = "failed"
            /\ UNCHANGED <<in_thinking_block, thinking_buffer, content_block_index,
                           text_block_started, thinking_block_started, event_buffer>>
       ELSE /\ \E tool_calls \in ToolCallLists :
                  LET f == flush(Handler)
                      st == _finalize_events(Blocks(event_buffer), f.events, tool_calls)
                  IN  /\ SetHandler(f.h)
                      /\ SetBlocks(st)
                      /\ event_buffer' = st.events
                      /\ out' = out \o generate_all_events(
                                          Blocks(event_buffer), f.events, tool_calls,
                                          context_usage_percentage, max_input_tokens,
                                          request_tokens)
            /\ pc' = "done"
    /\ UNCHANGED <<beside_stream, engine, thinking_enabled, context_usage_percentage,
                   consecutive_timeouts, stream_task, responses, attempt,
                   max_retries, request_tokens, max_input_tokens, raised, hist>>

\* The client disconnects while the generator is in the ping loop (asleep,
\* or about to sleep): CancelledError leaves the generator; nothing in it
\* cancels or awaits the task, which goes on reading.
BufDisconnect ==
    /\ engine = "buffered"
    /\ pc = "sleeping" \/ (pc = "waiting" /\ ~task_done)
    /\ raised' = "CancelledError"
    /\ pc' = "cancelled"
    /\ since_ping' = 0
    /\ UNCHANGED <<beside_stream, engine, out, thinking_enabled, in_thinking_block, thinking_buffer,
                   content_block_index, text_block_started, thinking_block_started,
                   context_usage_percentage, consecutive_timeouts, event_buffer,
                   stream_task, responses, attempt, max_retries, request_tokens,
                   max_input_tokens, hist>>

BufNext ==
    \/ BufStart
    \/ TaskContent
    \/ TaskContextUsage
    \/ TaskOther
    \/ TaskTimeout
    \/ TaskTransportError
    \/ TaskEnd
    \/ BufSleep
    \/ BufWake
    \/ BufJoin
    \/ BufDisconnect

(***************************************************************************)
(* Engine "retry": stream_with_first_token_retry, and inside one attempt   *)
(* stream_kiro_to_openai_internal.                                         *)
(***************************************************************************)
\* Mutants: the loop runs one attempt fewer, one attempt more.
attempt_permitted_one_fewer(a, m) == a < m - 1

attempt_permitted_one_more(a, m) == a <= m

\* "for attempt in range(max_retries)": whether the loop runs its body for
\* this value of attempt.
attempt_permitted(a, m) == a < m

\* The loop body up to the first read of the inner generator: make_request()
\* and the status check.  When the loop is over, the 504 after the loop.
RetryRequest ==
    /\ engine = "retry" /\ pc = "start"
    /\ IF attempt_permitted(attempt, max_retries)
       THEN \E result \in {"200", "error_status", "raises"} :
               CASE result = "200" ->
                        /\ responses' = Append(responses, "open")
                        /\ pc' = "first_wait"
                        /\ UNCHANGED raised
                 [] result = "error_status" ->
                        /\ responses' = Append(responses, "closed")
                        /\ raised' = "HTTPException_upstream"
                        /\ pc' = "raised"
                 [] result = "raises" ->
                        /\ raised' = "RequestError"
                        /\ pc' = "raised"
                        /\ UNCHANGED responses
       ELSE /\ raised' = "HTTPException_504"
            /\ pc' = "raised"
            /\ UNCHANGED responses
    /\ consecutive_timeouts' = 0
    /\ context_usage_percentage' = None
    /\ hist' = [hist EXCEPT !.nread = 0, !.run = 0, !.ctx_last = None,
                            !.requests = IF attempt_permitted(attempt, max_retries)
                                         THEN @ + 1 ELSE @,
                            !.reissued = @ \/ (hist.first_byte /\
                                               attempt_permitted(attempt, max_retries))]
    /\ UNCHANGED <<beside_stream, engine, out, thinking_enabled, in_thinking_block, thinking_buffer,
                   content_block_index, text_block_started, thinking_block_started,
                   event_buffer, stream_task, since_ping, attempt, max_retries,
                   request_tokens, max_input_tokens>>

\* What stream_kiro_to_openai_internal yields for the events of one chunk.
openai_chunk_events(kind, content) ==
    IF kind = "content" THEN <<SSE("chunk", -1, "", content, None)>> ELSE <<>>

\* context_usage_percentage after the events of one chunk.
openai_context_usage(kind, p, old) == IF kind = "context_usage" THEN p ELSE old

\* The first chunk arrives within first_token_timeout.
RetryFirstByte ==
    /\ engine = "retry" /\ pc = "first_wait" /\ hist.nread < MaxChunks
    /\ \E kind \in {"content", "context_usage", "other"}, p \in Percentages :
          \E content \in (IF kind = "content" THEN ContentChunks ELSE {<<>>}) :
             /\ kind # "context_usage" => p = 0
             /\ out' = out \o openai_chunk_events(kind, content)
             /\ context_usage_percentage' =
                    openai_context_usage(kind, p, context_usage_percentage)
             /\ hist' = [after_read(hist) EXCEPT
                            !.first_byte = TRUE,
                            !.ctx_last = IF kind = "context_usage" THEN p ELSE @]
    /\ pc' = "reading"
    /\ UNCHANGED <<beside_stream, engine, thinking_enabled, in_thinking_block, thinking_buffer,
                   content_block_index, text_block_started, thinking_block_started,
                   consecutive_timeouts, event_buffer, stream_task, since_ping,
                   responses, attempt, max_retries, request_tokens,
                   max_input_tokens, raised>>

\* No byte within first_token_timeout: FirstTokenTimeoutError leaves the inner
\* generator through its finally clause; the wrapper closes the response
\* again and continues with the next attempt, or leaves the loop and raises
\* the 504.
RetryFirstTokenTimeout ==
    /\ engine = "retry" /\ pc = "first_wait"
    /\ responses' = aclose(aclose(responses))
    /\ attempt' = attempt + 1
    /\ IF attempt_permitted(attempt + 1, max_retries)
       THEN /\ pc' = "start"
            /\ UNCHANGED raised
       ELSE /\ raised' = "HTTPException_504"
            /\ pc' = "raised"
    /\ UNCHANGED <<beside_stream, engine, out, thinking_enabled, in_thinking_block, thinking_buffer,
                   content_block_index, text_block_started, thinking_block_started,
                   context_usage_percentage, consecutive_timeouts, event_buffer,
                   stream_task, since_ping, max_retries, request_tokens,
                   max_input_tokens, hist>>

\* StopAsyncIteration on the first read: "data: [DONE]" and return.
RetryFirstEnd ==
    /\ engine = "retry" /\ pc = "first_wait"
    /\ out' = Append(out, SSE("[DONE]", -1, "", <<>>, None))
    /\ responses' = aclose(responses)
    /\ pc' = "done"
    /\ UNCHANGED <<beside_stream, engine, thinking_enabled, in_thinking_block, thinking_buffer,
                   content_block_index, text_block_started, thinking_block_started,
                   context_usage_percentage, consecutive_timeouts, event_buffer,
                   stream_task, since_ping, attempt, max_retries, request_tokens,
                   max_input_tokens, raised, hist>>

\* Mutant: the inner generator re-raises the transport error.
transport_error_reraised == TRUE

\* What the inner generator's "except Exception" does with a transport
\* error: TRUE when the error is re-raised to the caller, FALSE when it is
\* logged and the generator returns.
transport_error_propagates == FALSE

\* A transport error while reading (first read or later).
RetryTransportError ==
    /\ engine = "retry" /\ pc \in {"first_wait", "reading"}
    /\ responses' = aclose(responses)
    /\ hist' = [hist EXCEPT !.failure = "transport"]
    /\ IF transport_error_propagates
       THEN /\ raised' = "TransportError"
            /\ pc' = "raised"
       ELSE /\ pc' = "done"
            /\ UNCHANGED raised
    /\ UNCHANGED <<beside_stream, engine, out, thinking_enabled, in_thinking_block, thinking_buffer,
                   content_block_index, text_block_started, thinking_block_started,
                   context_usage_percentage, consecutive_timeouts, event_buffer,
                   stream_task, since_ping, attempt, max_retries, request_tokens,
                   max_input_tokens>>

\* A later chunk.
RetryChunk ==
    /\ engine = "retry" /\ pc = "reading" /\ hist.nread < MaxChunks
    /\ \E kind \in {"content", "context_usage", "other"}, p \in Percentages :
          \E content \in (IF kind = "content" THEN ContentChunks ELSE {<<>>}) :
             /\ kind # "context_usage" => p = 0
             /\ out' = out \o openai_chunk_events(kind, content)
             /\ context_usage_percentage' =
                    openai_context_usage(kind, p, context_usage_percentage)
             /\ hist' = [after_read(hist) EXCEPT
                            !.ctx_last = IF kind = "context_usage" THEN p ELSE @]
    /\ consecutive_timeouts' = 0
    /\ UNCHANGED <<beside_stream, engine, pc, thinking_enabled, in_thinking_block, thinking_buffer,
                   content_block_index, text_block_started, thinking_block_started,
                   event_buffer, stream_task, since_ping, responses, attempt,
                   max_retries, request_tokens, max_input_tokens, raised>>

\* An inter-chunk StreamReadTimeoutError: tolerated, or re-raised by the inner
\* generator (finally: aclose) and by the wrapper's "except Exception"
\* (aclose again, raise).
RetryTimeout ==
    /\ engine = "retry" /\ pc = "reading"
    /\ consecutive_timeouts' = consecutive_timeouts + 1
    /\ IF timeout_tolerated(consecutive_timeouts + 1)
       THEN /\ hist' = after_timeout(hist)
            /\ UNCHANGED <<pc, responses, raised>>
       ELSE /\ hist' = [after_timeout(hist) EXCEPT !.failure = "timeout"]
            /\ responses' = aclose(aclose(responses))
            /\ raised' = "StreamReadTimeoutError"
            /\ pc' = "raised"
    /\ UNCHANGED <<beside_stream, engine, out, thinking_enabled, in_thinking_block, thinking_buffer,
                   content_block_index, text_block_started, thinking_block_started,
                   context_usage_percentage, event_buffer, stream_task, since_ping,
                   attempt, max_retries, request_tokens, max_input_tokens>>

\* StopAsyncIteration: the tool-calls chunk when there are tool calls, the
\* final chunk with the usage, "data: [DONE]", the finally clause; the
\* wrapper returns.
RetryEnd ==
    /\ engine = "retry" /\ pc = "reading"
    /\ \E tool_calls \in ToolCallLists :
          out' = out
                 \o (IF tool_calls # <<>>
                     THEN <<SSE("tool_calls", -1, "", <<>>, None)>> ELSE <<>>)
                 \o <<SSE("final", -1, "", <<>>, None),
                      SSE("[DONE]", -1, "", <<>>, None)>>
    /\ responses' = aclose(responses)
    /\ pc' = "done"
    /\ UNCHANGED <<beside_stream, engine, thinking_enabled, in_thinking_block, thinking_buffer,
                   content_block_index, text_block_started, thinking_block_started,
                   context_usage_percentage, consecutive_timeouts, event_buffer,
                   stream_task, since_ping, attempt, max_retries, request_tokens,
                   max_input_tokens, raised, hist>>

\* The client disconnects while the inner generator awaits a chunk:
\* CancelledError runs the inner finally clause and passes the wrapper's
\* "except Exception".
RetryDisconnect ==
    /\ engine = "retry" /\ pc \in {"first_wait", "reading"}
    /\ responses' = aclose(responses)
    /\ raised' = "CancelledError"
    /\ pc' = "cancelled"
    /\ UNCHANGED <<beside_stream, engine, out, thinking_enabled, in_thinking_block, thinking_buffer,
                   content_block_index, text_block_started, thinking_block_started,
                   context_usage_percentage, consecutive_timeouts, event_buffer,
                   stream_task, since_ping, attempt, max_retries, request_tokens,
                   max_input_tokens, hist>>

RetryNext ==
    \/ RetryRequest
    \/ RetryFirstByte
    \/ RetryFirstTokenTimeout
    \/ RetryFirstEnd
    \/ RetryTransportError
    \/ RetryChunk
    \/ RetryTimeout
    \/ RetryEnd
    \/ RetryDisconnect

Next == AnthNext \/ BufNext \/ RetryNext

Spec == Init /\ [][Next]_vars

(***************************************************************************)
(* The thinking-tag parsers on their own: an upstream text arrives cut     *)
(* into chunks at arbitrary positions, every chunk goes to both parsers,   *)
(* and both are flushed at the end of the stream.                          *)
(***************************************************************************)
MaxCuts == 2     \* cuts of an upstream text (one more chunk than cuts)

\* No stream generator is running.
StreamIdle ==
    /\ engine = "none"
    /\ pc = "idle"
    /\ out = <<>>
    /\ thinking_enabled = FALSE
    /\ in_thinking_block = FALSE
    /\ thinking_buffer = <<>>
    /\ content_block_index = 0
    /\ text_block_started = FALSE
    /\ thinking_block_started = FALSE
    /\ context_usage_percentage = None
    /\ consecutive_timeouts = 0
    /\ event_buffer = <<>>
    /\ stream_task = "none"
    /\ since_ping = 0
    /\ responses = <<>>
    /\ attempt = 0
    /\ max_retries = 0
    /\ request_tokens = 0
    /\ max_input_tokens = 0
    /\ raised = "none"
    /\ hist = Hist0

\* Upstream texts: an optional <thinking>, an optional </thinking>, and
\* around them nothing, plain text, the beginning of a tag, or a tag where
\* none is expected.
BeforeOpen == {<<>>, <<"a">> \o Take(THINKING_START_TAG, 4), THINKING_END_TAG}

Inside == {<<>>, <<"a">>, Take(THINKING_END_TAG, 2)}

AfterClose == {<<>>, <<"a">> \o Take(THINKING_END_TAG, 2), THINKING_START_TAG}

RECURSIVE Concat(_)
Concat(ss) == IF ss = <<>> THEN <<>> ELSE Head(ss) \o Concat(Tail(ss))

Texts ==
    {Concat(<<pre, open, mid, close, post>>) :
        pre \in BeforeOpen, open \in {<<>>, THINKING_START_TAG}, mid \in Inside,
        close \in {<<>>, THINKING_END_TAG}, post \in AfterClose} \ {<<>>}

ParserInit ==
    /\ StreamIdle
    /\ parse_pc = "feeding"
    /\ parse_rest \in Texts
    /\ parse_fed = <<>>
    /\ handler_enabled \in BOOLEAN
    /\ handler = HState(FALSE, <<>>)
    /\ handler_events = <<>>
    /\ kiro = KState(<<>>, FALSE)
    /\ kiro_segments = <<>>
    /\ AllocIdle
    /\ RestIdle

\* The next chunk arrives: any non-empty beginning of the rest, the whole
\* rest once the text has been cut MaxCuts times.
ParserFeed ==
    /\ parse_pc = "feeding" /\ parse_rest # <<>>
    /\ \E n \in 1..Len(parse_rest) :
          /\ Len(parse_fed) = MaxCuts => n = Len(parse_rest)
          /\ LET content == Take(parse_rest, n)
                 r == process_content(handler_enabled, handler, content)
                 k == push_and_parse(kiro, content)
             IN  /\ parse_rest' = Drop(parse_rest, n)
                 /\ parse_fed' = Append(parse_fed, content)
                 /\ handler' = r.h
                 /\ handler_events' = handler_events \o r.events
                 /\ kiro' = k.k
                 /\ kiro_segments' = kiro_segments \o k.segments
    /\ UNCHANGED <<beside_parser, parse_pc, handler_enabled>>

\* End of the stream: both parsers are flushed.
ParserFlush ==
    /\ parse_pc = "feeding" /\ parse_rest = <<>>
    /\ LET r == flush(handler)
           k == kiro_flush(kiro)
       IN  /\ handler' = r.h
           /\ handler_events' = handler_events \o r.events
           /\ kiro' = k.k
           /\ kiro_segments' = kiro_segments \o k.segments
    /\ parse_pc' = "flushed"
    /\ UNCHANGED <<beside_parser, parse_rest, parse_fed, handler_enabled>>

ParserNext == ParserFeed \/ ParserFlush

ParserSpec == ParserInit /\ [][ParserNext]_vars

(***************************************************************************)
(* Token-pool allocator (token_allocator.py).  Strings are sequences of    *)
(* one-character strings; the None model and the empty model are <<>>.     *)
(***************************************************************************)
MaxCredentials == 3   \* rows of the credentials table
MaxAccounts == 1      \* active external-API accounts

\* settings: the configured Pro+ model ids.
PRO_PLUS_MODELS == {<<"k", "1">>}

\* str.lower on the letters the model names use.
LowerChar(ch) ==
    CASE ch = "S" -> "s"
      [] ch = "O" -> "o"
      [] OTHER -> ch

lower(text) == [i \in 1..Len(text) |-> LowerChar(text[i])]

\* needle in text
Contains(text, needle) == Find(text, needle) # -1

requires_pro_plus(model) ==
    IF model = <<>> THEN FALSE
    ELSE IF model \in PRO_PLUS_MODELS THEN TRUE
    ELSE LET model_lower == lower(model)
         IN  IF Contains(model_lower, <<"o", "p", "u", "s">>) THEN TRUE
             ELSE IF Contains(model_lower, <<"s", "o", "n", "n", "e", "t">>)
                     /\ (Contains(model_lower, <<"4", "-", "6">>)
                         \/ Contains(model_lower, <<"4", ".", "6">>))
                  THEN TRUE
                  ELSE FALSE

\* str.strip (of blanks) and str.split(",")
RECURSIVE lstrip(_)
lstrip(text) == IF text # <<>> /\ Head(text) = " " THEN lstrip(Tail(text)) ELSE text

RECURSIVE rstrip(_)
rstrip(text) ==
    IF text # <<>> /\ text[Len(text)] = " " THEN rstrip(Take(text, Len(text) - 1)) ELSE text

strip(text) == rstrip(lstrip(text))

RECURSIVE split(_)
split(text) ==
    LET i == Find(text, <<",">>)
    IN  IF i = -1 THEN <<text>> ELSE <<Take(text, i)>> \o split(Drop(text, i + 1))

\* Variant that accepts a whitelist entry the model name merely begins.
_account_matches_model_prefix(account, model) ==
    \E k \in DOMAIN split(account.model) :
       LET m == strip(split(account.model)[k])
       IN  Len(m) <= Len(model) /\ m # <<>> /\ Take(model, Len(m)) = m

_account_matches_model(account, model) ==
    LET raw == strip(account.model)
        parts == split(raw)
    IN  IF raw = <<>> THEN FALSE
        ELSE model \in {strip(parts[k]) : k \in DOMAIN parts}

\* A result of get_best_token: an account type with the id of the row, or
\* the exception raised.
Allocated(type, id) == [type |-> type, id |-> id]

NoTokenAvailable == Allocated("NoTokenAvailable", None)

\* _weighted_random_choice: every score is at least 5 (the cooldown part), so
\* every token of the list has a positive weight and can be the one drawn.
_weighted_random_choice(tokens) == {Allocated("kiro", t) : t \in tokens}

\* random.choice over external-API accounts.
random_choice_custom(accounts) == {Allocated("custom_api", a) : a \in accounts}


\* user_db, by what the repository says of it: a user's own credentials, a
\* user's active external-API accounts, the active public credentials.
get_user_tokens(user_id) ==
    {t \in DOMAIN credentials : credentials[t].owner = user_id}

get_active_custom_api_accounts_by_user(user_id) ==
    {a \in DOMAIN custom_api_accounts : custom_api_accounts[a].owner = user_id}

get_public_tokens ==
    {t \in DOMAIN credentials :
        credentials[t].visibility = "public" /\ credentials[t].status = "active"}

\* Variant that keeps every credential of the user, whatever its status.
active_kiro_tokens_any_status(user_id) ==
    {t \in get_user_tokens(user_id) :
        ~self_use_enabled \/ credentials[t].visibility = "private"}

active_kiro_tokens(user_id) ==
    {t \in get_user_tokens(user_id) :
        /\ credentials[t].status = "active"
        /\ (~self_use_enabled \/ credentials[t].visibility = "private")}

\* Variant that takes every active credential for a Pro+ one.
pro_tokens_any(tokens) == tokens

pro_tokens(tokens) == {t \in tokens : credentials[t].opus_enabled}

pro_custom(accounts, model) ==
    {a \in accounts : _account_matches_model(custom_api_accounts[a], model)}

\* The Pro+ draw: random.random() < n / (n + m) with n, m > 0 can go either
\* way.
pro_plus_choice(tokens, accounts) ==
    IF tokens # {} /\ accounts # {}
    THEN _weighted_random_choice(tokens) \cup random_choice_custom(accounts)
    ELSE IF tokens # {}
    THEN _weighted_random_choice(tokens)
    ELSE random_choice_custom(accounts)

\* Variant of the full pool that leaves the external-API accounts out.
all_candidates_kiro_only(tokens, accounts) == {Allocated("kiro", t) : t \in tokens}

\* all_candidates and random.choice over it.
all_candidates(tokens, accounts) ==
    {Allocated("kiro", t) : t \in tokens}
    \cup {Allocated("custom_api", a) : a \in accounts}

\* The public pool (the part of get_best_token after the user branch).
public_pool(model) ==
    IF self_use_enabled THEN {NoTokenAvailable}
    ELSE LET public_tokens == get_public_tokens
             reliable == {t \in public_tokens : credentials[t].reliable}
             good_tokens == IF reliable = {} THEN public_tokens ELSE reliable
         IN  IF public_tokens = {} THEN {NoTokenAvailable}
             ELSE IF requires_pro_plus(model) /\ pro_tokens(good_tokens) # {}
                  THEN _weighted_random_choice(pro_tokens(good_tokens))
                  ELSE _weighted_random_choice(good_tokens)

\* Variant that sends a user without accounts to the public pool.
no_user_account_public(model) == public_pool(model)

\* A user without any usable account: no fallback to the public pool.
no_user_account(model) == {NoTokenAvailable}

\* Everything get_best_token(user_id, model) can return or raise.
get_best_token(user_id, model) ==
    IF user_id # None
    THEN LET tokens == active_kiro_tokens(user_id)
             accounts == get_active_custom_api_accounts_by_user(user_id)
             requesting_pro_plus == requires_pro_plus(model)
         IN  IF requesting_pro_plus
                /\ (pro_tokens(tokens) # {} \/ pro_custom(accounts, model) # {})
             THEN pro_plus_choice(pro_tokens(tokens), pro_custom(accounts, model))
             ELSE IF all_candidates(tokens, accounts) # {}
                  THEN all_candidates(tokens, accounts)
                  ELSE no_user_account(model)
    ELSE public_pool(model)

\* _record_recent_usage
_record_recent_usage(usage, token_id) == [usage EXCEPT ![token_id] = @ + 1]

\* Inputs.  The user of the request is user 1; user 2 is another user.
Users == {1, 2}

\* Requested models: none, Pro+ by the opus keyword, Pro+ by the sonnet 4.6
\* rule, Pro+ by configuration, and one of the normal tier.
Models ==
    { <<>>,
      <<"O", "p", "u", "s">>,
      <<"s", "o", "n", "n", "e", "t", "-", "4", ".", "6">>,
      <<"k", "1">>,
      <<"s", "o", "n", "n", "e", "t", "-", "4">> }

\* Model whitelists of external-API accounts.
Whitelists ==
    { <<>>,
      <<" ", " ">>,
      <<"s", "o", "n", "n", "e", "t", "-", "4">>,
      <<" ", "O", "p", "u", "s", " ", ",", " ", "s", "o", "n", "n", "e", "t", "-", "4", ".", "6">> }

\* reliable: success_rate >= token_min_success_rate, or fewer than 10 uses.
\* It is read for active public credentials only.  Of another user's
\* credentials only the active ones are enumerated.
CredentialRows ==
    {c \in [owner : Users, status : {"active", "invalid", "expired"},
            visibility : {"private", "public"}, opus_enabled : BOOLEAN,
            reliable : BOOLEAN] :
        /\ ~c.reliable => (c.visibility = "public" /\ c.status = "active")
        /\ c.owner = 2 => c.status = "active"}

AccountRows ==
    {a \in [owner : Users, model : Whitelists] : a.owner = 2 => a.model = <<>>}

\* Rows are told apart by their ids only, so tables are enumerated up to
\* the order of their rows.
StatusRank(status) ==
    CASE status = "active" -> 0 [] status = "invalid" -> 1 [] status = "expired" -> 2

CredentialRank(c) ==
    (((c.owner * 3 + StatusRank(c.status)) * 2
        + (IF c.visibility = "public" THEN 1 ELSE 0)) * 2
        + (IF c.opus_enabled THEN 1 ELSE 0)) * 2
        + (IF c.reliable THEN 1 ELSE 0)

CredentialTables ==
    {f \in UNION {[1..n -> CredentialRows] : n \in 0..MaxCredentials} :
        \A i \in DOMAIN f : \A j \in DOMAIN f :
           i < j => CredentialRank(f[i]) <= CredentialRank(f[j])}

AccountTables == UNION {[1..n -> AccountRows] : n \in 0..MaxAccounts}

Requests ==
    [user_id : {None, 1}, model : Models, donated_token_id : {None}]

AllocInit ==
    /\ StreamIdle
    /\ ParserIdle
    /\ RestIdle
    /\ credentials \in CredentialTables
    /\ custom_api_accounts \in AccountTables
    /\ self_use_enabled \in BOOLEAN
    /\ request \in Requests
    /\ allocation = Allocated("none", None)
    /\ _recent_usage = [t \in DOMAIN credentials |-> 0]
    /\ _token_managers = {}
    /\ upstream_error = <<>>
    /\ client_response = <<>>

\* get_best_token when the draw is a credential: the use is recorded, the
\* credential's manager is created and cached; process_request keeps the id
\* in request.state when the request carries a user id.
AllocateCredential ==
    /\ allocation.type = "none"
    /\ \E result \in get_best_token(request.user_id, request.model) :
          /\ result.type = "kiro"
          /\ allocation' = result
          /\ _recent_usage' = _record_recent_usage(_recent_usage, result.id)
          /\ _token_managers' = _token_managers \cup {result.id}
          /\ request' = IF request.user_id # None
                        THEN [request EXCEPT !.donated_token_id = result.id]
                        ELSE request
    /\ UNCHANGED <<beside_alloc, credentials, custom_api_accounts,
                   self_use_enabled, upstream_error, client_response>>

\* get_best_token when the draw is an external-API account.
AllocateAccount ==
    /\ allocation.type = "none"
    /\ \E result \in get_best_token(request.user_id, request.model) :
          /\ result.type = "custom_api"
          /\ allocation' = result
    /\ UNCHANGED <<beside_alloc, credentials, custom_api_accounts,
                   self_use_enabled, request, _recent_usage, _token_managers,
                   upstream_error, client_response>>

\* get_best_token raises NoTokenAvailable.
AllocateNothing ==
    /\ allocation.type = "none"
    /\ NoTokenAvailable \in get_best_token(request.user_id, request.model)
    /\ allocation' = NoTokenAvailable
    /\ UNCHANGED <<beside_alloc, credentials, custom_api_accounts,
                   self_use_enabled, request, _recent_usage, _token_managers,
                   upstream_error, client_response>>

AllocNext == AllocateCredential \/ AllocateAccount \/ AllocateNothing

AllocSpec == AllocInit /\ [][AllocNext]_vars

(***************************************************************************)
(* The upstream's error response (RequestHandler.handle_api_error).        *)
(***************************************************************************)

MONTHLY_REQUEST_COUNT ==
    <<"M", "O", "N", "T", "H", "L", "Y", "_", "R", "E", "Q", "U", "E",
      "S", "T", "_", "C", "O", "U", "N", "T">>

CONTENT_LENGTH_EXCEEDS_THRESHOLD ==
    <<"C", "O", "N", "T", "E", "N", "T", "_", "L", "E", "N", "G", "T",
      "H", "_", "E", "X", "C", "E", "E", "D", "S", "_", "T", "H", "R",
      "E", "S", "H", "O", "L", "D">>

INPUT_IS_TOO_LONG ==
    <<"I", "n", "p", "u", "t", " ", "i", "s", " ", "t", "o", "o", " ",
      "l", "o", "n", "g">>

REASON_OPEN ==
    <<" ", "(", "r", "e", "a", "s", "o", "n", ":", " ">>

REASON_CLOSE == <<")">>

\* An optional value that is no integer: NoValue for Python's None or an
\* absent member, Just(v) for the value v.
NoValue == <<>>

Just(v) == <<v>>

\* Python's truth value of an optional string: None and "" are false.
Truthy(text) == text # NoValue /\ text[1] # <<>>

\* The text of the body as it was received: a body that is a JSON object
\* carries the values of its members, in the order reason, message, error.
Member(text) == IF text = NoValue THEN <<>> ELSE <<"{">> \o text[1] \o <<"}">>

error_text(body) ==
    IF ~body.json
    THEN body.text
    ELSE Member(body.reason) \o Member(body.message)
         \o (IF body.error = NoValue THEN <<>>
             ELSE <<"{">> \o Member(body.error[1].message)
                  \o Member(body.error[1].reason) \o <<"}">>)

\* error_reason before the message is extended: the top-level reason, else
\* the reason of the "error" member when the body has no top-level message.
error_reason(body) ==
    IF ~body.json THEN NoValue
    ELSE IF body.message = NoValue /\ body.error # NoValue
            /\ ~Truthy(body.reason) /\ body.error[1].reason # NoValue
         THEN body.error[1].reason
         ELSE body.reason

\* error_message: the top-level message, else the message of the "error"
\* member, else the whole text; the reason is appended when there is one.
error_message(body) ==
    LET message == IF ~body.json THEN error_text(body)
                   ELSE IF body.message # NoValue THEN body.message[1]
                   ELSE IF body.error # NoValue
                           /\ body.error[1].message # NoValue
                        THEN body.error[1].message[1]
                   ELSE error_text(body)
    IN  IF Truthy(error_reason(body))
        THEN message \o REASON_OPEN \o error_reason(body)[1] \o REASON_CLOSE
        ELSE message

\* reason_text = error_reason or error_message
reason_text(body) ==
    IF Truthy(error_reason(body)) THEN error_reason(body)[1]
    ELSE error_message(body)

\* combined_error = (error_reason or "") + error_message
combined_error(body) ==
    (IF Truthy(error_reason(body)) THEN error_reason(body)[1] ELSE <<>>)
    \o error_message(body)

\* user_db.set_token_status: the credential's row gets the status.
set_token_status(table, token_id, status) ==
    IF token_id \in DOMAIN table
    THEN [table EXCEPT ![token_id].status = status]
    ELSE table

\* The JSON response of handle_api_error: status code and error type.
error_response(body, error_format) ==
    IF \/ Contains(combined_error(body), CONTENT_LENGTH_EXCEEDS_THRESHOLD)
       \/ Contains(combined_error(body), INPUT_IS_TOO_LONG)
    THEN [status_code |-> 400, type |-> "invalid_request_error"]
    ELSE [status_code |-> body.status_code,
          type |-> IF error_format = "anthropic" THEN "api_error"
                   ELSE "kiro_api_error"]

\* Error bodies: texts that are no JSON object, and JSON objects with any of
\* the members reason, message and error (itself with message and reason).
QuotaText == <<"x", " ">> \o MONTHLY_REQUEST_COUNT \o <<"_", "R">>

MONTHLY_REQUEST_COUNT_REACHED ==
    MONTHLY_REQUEST_COUNT \o <<"_", "R", "E", "A", "C", "H", "E", "D">>

OtherText == <<"T", "H", "R">>

ErrorFormats == {"openai", "anthropic"}

StatusCodes == {400, 429}

ErrorMembers ==
    { NoValue,
      Just([message |-> Just(QuotaText), reason |-> NoValue]),
      Just([message |-> Just(OtherText), reason |-> Just(QuotaText)]) }

Bodies ==
    [status_code : StatusCodes, json : {FALSE},
     text : {QuotaText, OtherText, INPUT_IS_TOO_LONG},
     reason : {NoValue}, message : {NoValue}, error : {NoValue}]
    \cup
    [status_code : StatusCodes, json : {TRUE}, text : {<<>>},
     reason : {NoValue, Just(<<>>), Just(QuotaText), Just(OtherText),
               Just(MONTHLY_REQUEST_COUNT_REACHED),
               Just(CONTENT_LENGTH_EXCEEDS_THRESHOLD)},
     message : {NoValue, Just(QuotaText), Just(OtherText)},
     error : ErrorMembers]

\* A request of a user for a normal-tier model, before its allocation; the
\* tables hold the rows get_best_token reads for it, the user's own.
ErrorInit ==
    /\ AllocInit
    /\ request.user_id # None
    /\ request.model = <<>>
    /\ ~self_use_enabled
    /\ \A t \in DOMAIN credentials :
          /\ credentials[t].owner = request.user_id
          /\ ~credentials[t].opus_enabled
          /\ credentials[t].reliable
    /\ \A a \in DOMAIN custom_api_accounts :
          custom_api_accounts[a].owner = request.user_id

\* process_request gets a non-200 response for the request it sent with the
\* allocated credential and returns handle_api_error's response.
HandleApiErrorOf(bodies, formats) ==
    /\ allocation.type = "kiro"
    /\ upstream_error = NoValue
    /\ client_response = NoValue
    /\ \E body \in bodies, error_format \in formats :
          /\ upstream_error' = Just(body)
          /\ credentials' =
                IF /\ request.donated_token_id # None
                   /\ Contains(reason_text(body), MONTHLY_REQUEST_COUNT)
                THEN set_token_status(credentials, request.donated_token_id,
                                      "expired")
                ELSE credentials
          /\ client_response' = Just(error_response(body, error_format))
    /\ UNCHANGED <<beside_pool, custom_api_accounts,
                   self_use_enabled, request, allocation, _recent_usage,
                   _token_managers>>

HandleApiError == HandleApiErrorOf(Bodies, ErrorFormats) /\ UNCHANGED pool_vars

ErrorNext == AllocNext \/ HandleApiError

ErrorSpec == ErrorInit /\ [][ErrorNext]_vars

(***************************************************************************)
(* The health checker (TokenHealthChecker) beside the requests served from *)
(* the pool.                                                               *)
(***************************************************************************)
MaxRounds == 2      \* health-check rounds started
MaxRequests == 2    \* requests begun

ERROR_LIMIT == 200

FAILED_TO_GET_TOKEN_CREDENTIALS ==
    <<"F", "a", "i", "l", "e", "d", " ", "t", "o", " ", "g", "e", "t",
      " ", "t", "o", "k", "e", "n", " ", "c", "r", "e", "d", "e", "n",
      "t", "i", "a", "l", "s">>

NO_ACCESS_TOKEN_RETURNED ==
    <<"N", "o", " ", "a", "c", "c", "e", "s", "s", " ", "t", "o", "k",
      "e", "n", " ", "r", "e", "t", "u", "r", "n", "e", "d">>

\* user_db.get_all_active_tokens: the ids of the active credentials.
RECURSIVE ActiveFrom(_, _)
ActiveFrom(table, t) ==
    IF t > Len(table) THEN <<>>
    ELSE (IF table[t].status = "active" THEN <<t>> ELSE <<>>)
         \o ActiveFrom(table, t + 1)

get_all_active_tokens(table) == ActiveFrom(table, 1)

\* user_db.record_health_check: the credential's last check and its error.
record_health_check(log, token_id, success, error) ==
    [log EXCEPT ![token_id] = Just([success |-> success, error |-> error])]

\* What the environment does to one check: the credentials row is complete
\* or not, the manager returns a token, returns none, or raises.
ShortError == <<"4", "0", "1">>

LongError == [i \in 1..(ERROR_LIMIT + 1) |-> "e"]

CheckOutcomes ==
    [kind : {"valid", "no_credentials", "no_access_token"}, error : {<<>>}]
    \cup [kind : {"raised"}, error : {ShortError, LongError}]

\* check_token: the verdict and the record it leaves.
check_token_keeps_error(log, token_id, outcome) ==
    [is_valid |-> outcome.kind = "valid",
     log |-> record_health_check(log, token_id, outcome.kind = "valid",
                                 outcome.error)]

check_token(log, token_id, outcome) ==
    CASE outcome.kind = "no_credentials" ->
            [is_valid |-> FALSE,
             log |-> record_health_check(log, token_id, FALSE,
                                         FAILED_TO_GET_TOKEN_CREDENTIALS)]
      [] outcome.kind = "valid" ->
            [is_valid |-> TRUE,
             log |-> record_health_check(log, token_id, TRUE, <<>>)]
      [] outcome.kind = "no_access_token" ->
            [is_valid |-> FALSE,
             log |-> record_health_check(log, token_id, FALSE,
                                         NO_ACCESS_TOKEN_RETURNED)]
      [] outcome.kind = "raised" ->
            [is_valid |-> FALSE,
             log |-> record_health_check(log, token_id, FALSE,
                                         Take(outcome.error,
                                              IF Len(outcome.error) < ERROR_LIMIT
                                              THEN Len(outcome.error)
                                              ELSE ERROR_LIMIT))]

\* check_all_tokens reads the active credentials; with none the round is over.
StartRound ==
    /\ health_round.pc = "idle"
    /\ health_round.rounds < MaxRounds
    /\ LET tokens == get_all_active_tokens(credentials)
       IN  health_round' =
              [pc |-> IF tokens = <<>> THEN "idle" ELSE "checking",
               rounds |-> health_round.rounds + 1,
               tokens |-> tokens,
               snapshot |-> {tokens[i] : i \in DOMAIN tokens},
               outcomes |-> {}]
    /\ UNCHANGED <<beside_pool, alloc_vars, last_check,
                   token_usage, served, request_phase>>

\* One turn of the loop of check_all_tokens: check_token, and the credential
\* is marked invalid when the check failed.
status_after_check_reactivates(table, token_id, is_valid) ==
    set_token_status(table, token_id, IF is_valid THEN "active" ELSE "invalid")

status_after_check(table, token_id, is_valid) ==
    IF is_valid THEN table ELSE set_token_status(table, token_id, "invalid")

CheckToken ==
    /\ health_round.pc = "checking"
    /\ health_round.tokens # <<>>
    /\ LET token_id == Head(health_round.tokens)
       IN  \E outcome \in CheckOutcomes :
              LET checked == check_token(last_check, token_id, outcome)
              IN  /\ last_check' = checked.log
                  /\ credentials' = status_after_check(credentials, token_id,
                                                       checked.is_valid)
                  /\ health_round' =
                        [health_round EXCEPT
                           !.tokens = Tail(@),
                           !.outcomes = @ \cup {<<token_id, outcome>>}]
    /\ UNCHANGED <<beside_pool, custom_api_accounts,
                   self_use_enabled, request, allocation, _recent_usage,
                   _token_managers, upstream_error, client_response,
                   token_usage, served, request_phase>>

\* check_all_tokens returns its summary after the last check.
FinishRound ==
    /\ health_round.pc = "checking"
    /\ health_round.tokens = <<>>
    /\ health_round' = [health_round EXCEPT !.pc = "idle"]
    /\ UNCHANGED <<beside_pool, alloc_vars, last_check,
                   token_usage, served, request_phase>>

\* user_db.record_token_usage: one more success or one more failure.
record_token_usage(counters, token_id, success) ==
    IF success
    THEN [counters EXCEPT ![token_id].success_count = @ + 1]
    ELSE [counters EXCEPT ![token_id].fail_count = @ + 1]

\* SmartTokenAllocator.record_usage
record_usage_as_success(counters, token_id, success) ==
    record_token_usage(counters, token_id, TRUE)

record_usage(counters, token_id, success) ==
    record_token_usage(counters, token_id, success)

\* The upstream accepts the request sent with the allocated credential.
UpstreamOk ==
    /\ allocation.type = "kiro"
    /\ upstream_error = NoValue
    /\ client_response = NoValue
    /\ client_response' = Just([status_code |-> 200, type |-> "message"])
    /\ served' = record_token_usage(served, allocation.id, TRUE)
    /\ UNCHANGED <<beside_pool, credentials, custom_api_accounts,
                   self_use_enabled, request, allocation, _recent_usage,
                   _token_managers, upstream_error, health_round, last_check,
                   token_usage, request_phase>>

\* The upstream rejects it: with the monthly quota, or with something else.
PoolBodies ==
    {body \in Bodies :
        /\ body.status_code = 400 /\ body.json
        /\ body.reason \in {Just(MONTHLY_REQUEST_COUNT_REACHED), Just(OtherText)}
        /\ body.message = NoValue /\ body.error = NoValue}

UpstreamRejects ==
    /\ HandleApiErrorOf(PoolBodies, {"anthropic"})
    /\ served' = record_token_usage(served, allocation.id, FALSE)
    /\ UNCHANGED <<health_round, last_check, token_usage, request_phase>>

\* The outcome of the served request is recorded for its credential.
RecordUsage ==
    /\ allocation.type = "kiro"
    /\ client_response # NoValue
    /\ ~request_phase.recorded
    /\ LET success == client_response[1].status_code = 200
       IN  token_usage' = record_usage(token_usage, allocation.id, success)
    /\ request_phase' = [request_phase EXCEPT !.recorded = TRUE]
    /\ UNCHANGED <<beside_pool, alloc_vars, health_round,
                   last_check, served>>

\* The next request of the user arrives when this one is over.
NextRequest ==
    /\ request_phase.recorded \/ allocation = NoTokenAvailable
    /\ request_phase.begun < MaxRequests
    /\ request_phase' = [begun |-> request_phase.begun + 1, recorded |-> FALSE]
    /\ request' = [request EXCEPT !.donated_token_id = None]
    /\ allocation' = Allocated("none", None)
    /\ upstream_error' = NoValue
    /\ client_response' = NoValue
    /\ UNCHANGED <<beside_pool, credentials, custom_api_accounts,
                   self_use_enabled, _recent_usage, _token_managers,
                   health_round, last_check, token_usage, served>>

\* A pool of up to MaxCredentials active private credentials of one user, who
\* sends requests for a normal-tier model.
PoolRow ==
    [owner |-> 1, status |-> "active", visibility |-> "private",
     opus_enabled |-> FALSE, reliable |-> TRUE]

PoolInit ==
    /\ StreamIdle
    /\ ParserIdle
    /\ CustomIdle
    /\ CacheIdle
    /\ ConvIdle
    /\ MoreIdle
    /\ credentials \in {[t \in 1..n |-> PoolRow] : n \in 0..MaxCredentials}
    /\ custom_api_accounts = <<>>
    /\ self_use_enabled = FALSE
    /\ request = [user_id |-> 1, model |-> <<>>, donated_token_id |-> None]
    /\ allocation = Allocated("none", None)
    /\ _recent_usage = [t \in DOMAIN credentials |-> 0]
    /\ _token_managers = {}
    /\ upstream_error = NoValue
    /\ client_response = NoValue
    /\ health_round = [pc |-> "idle", rounds |-> 0, tokens |-> <<>>,
                       snapshot |-> {}, outcomes |-> {}]
    /\ last_check = [t \in DOMAIN credentials |-> NoValue]
    /\ token_usage = [t \in DOMAIN credentials |->
                        [success_count |-> 0, fail_count |-> 0]]
    /\ served = [t \in DOMAIN credentials |->
                    [success_count |-> 0, fail_count |-> 0]]
    /\ request_phase = [begun |-> 1, recorded |-> FALSE]

PoolNext ==
    \/ StartRound \/ CheckToken \/ FinishRound
    \/ AllocateCredential \/ AllocateNothing
    \/ UpstreamOk \/ UpstreamRejects \/ RecordUsage \/ NextRequest

PoolSpec == PoolInit /\ [][PoolNext]_vars

(***************************************************************************)
(* The manager cache (AuthManagerCache) under concurrent callers.          *)
(***************************************************************************)
MaxSize == 2     \* largest max_size a cache is created with
MaxTasks == 2    \* tasks calling the cache
MaxCalls == 4    \* calls made to the cache, all tasks together

\* settings.region
settings_region == <<"s">>

RefreshTokens == {<<"a">>, <<"b">>}

Regions == {NoValue, Just(<<"r">>)}

\* cache_key = f"{refresh_token}:{actual_region}"
cache_key_of(refresh_token, region) ==
    refresh_token \o <<":">>
    \o (IF Truthy(region) THEN region[1] ELSE settings_region)

\* str.startswith
startswith(text, prefix) ==
    Len(prefix) <= Len(text) /\ Take(text, Len(prefix)) = prefix

\* cache_key in self.cache, self.cache[cache_key]
Cached(entries, key) == \E i \in DOMAIN entries : entries[i].key = key

ManagerOf(entries, key) ==
    entries[CHOOSE i \in DOMAIN entries : entries[i].key = key].manager

\* Entries of an OrderedDict without those that satisfy a test.
RECURSIVE Without(_, _)
Without(entries, keys) ==
    IF entries = <<>> THEN <<>>
    ELSE (IF Head(entries).key \in keys THEN <<>> ELSE <<Head(entries)>>)
         \o Without(Tail(entries), keys)

\* OrderedDict.move_to_end
move_to_end_stays(entries, key) == entries

move_to_end(entries, key) ==
    Without(entries, {key}) \o <<[key |-> key, manager |-> ManagerOf(entries, key)]>>

\* self.cache[cache_key] = auth_manager: a new key goes to the end, a key
\* that is there keeps its place.
set_item(entries, key, manager) ==
    IF Cached(entries, key)
    THEN [i \in DOMAIN entries |->
            IF entries[i].key = key THEN [key |-> key, manager |-> manager]
            ELSE entries[i]]
    ELSE Append(entries, [key |-> key, manager |-> manager])

\* len(self.cache) > self.max_size
over_size_by_two(entries, size) == Len(entries) > size + 1

over_size(entries, size) == Len(entries) > size

\* The keys remove deletes: the one of the region, or every key that starts
\* with the token and a colon.
keys_to_remove(entries, refresh_token, region) ==
    IF Truthy(region)
    THEN {cache_key_of(refresh_token, region)}
         \cap {entries[i].key : i \in DOMAIN entries}
    ELSE {entries[i].key : i \in
            {j \in DOMAIN entries :
                startswith(entries[j].key, refresh_token \o <<":">>)}}

\* async with self.lock: the lock can be taken when no task holds it.
lock_always_free(holder) == TRUE

lock_free(holder) == holder = 0

CacheCalls ==
    [op : {"get_or_create", "remove"}, refresh_token : RefreshTokens,
     region : Regions]
    \cup [op : {"clear"}, refresh_token : {<<>>}, region : {NoValue}]

IdleTask ==
    [pc |-> "idle", op |-> "none", refresh_token |-> <<>>, region |-> NoValue,
     auth_manager |-> 0]

CacheInit ==
    /\ StreamIdle
    /\ ParserIdle
    /\ AllocIdle
    /\ PoolIdle
    /\ CustomIdle
    /\ ConvIdle
    /\ MoreIdle
    /\ max_size \in 1..MaxSize
    /\ cache = <<>>
    /\ lock = 0
    /\ cache_tasks = [t \in 1..MaxTasks |-> IdleTask]
    /\ next_manager = 0
    /\ cache_log = <<>>

\* The calls begun so far.
CallsBegun ==
    Len(cache_log)
    + Cardinality({t \in DOMAIN cache_tasks : cache_tasks[t].pc # "idle"})

\* A task calls get_or_create, remove or clear and waits for the lock.
CacheCall(t) ==
    /\ cache_tasks[t].pc = "idle"
    /\ CallsBegun < MaxCalls
    /\ \E call \in CacheCalls :
          cache_tasks' = [cache_tasks EXCEPT ![t] =
                            [pc |-> "acquire", op |-> call.op,
                             refresh_token |-> call.refresh_token,
                             region |-> call.region, auth_manager |-> 0]]
    /\ UNCHANGED <<beside_cache, max_size, cache, lock, next_manager, cache_log>>

\* async with self.lock
CacheAcquire(t) ==
    /\ cache_tasks[t].pc = "acquire"
    /\ lock_free(lock)
    /\ lock' = t
    /\ cache_tasks' = [cache_tasks EXCEPT ![t].pc = "locked"]
    /\ UNCHANGED <<beside_cache, max_size, cache, next_manager, cache_log>>

\* The lock is released by the task that holds it.
Released(t) == IF lock = t THEN 0 ELSE lock

\* get_or_create finds the key: the entry becomes the most recently used.
CacheHit(t) ==
    LET key == cache_key_of(cache_tasks[t].refresh_token, cache_tasks[t].region)
    IN  /\ cache_tasks[t].pc = "locked"
        /\ cache_tasks[t].op = "get_or_create"
        /\ Cached(cache, key)
        /\ cache' = move_to_end(cache, key)
        /\ cache_log' = Append(cache_log,
                           [op |-> "get_or_create", task |-> t,
                            keys |-> {key}, manager |-> ManagerOf(cache, key),
                            created |-> FALSE, evicted |-> {}])
        /\ lock' = Released(t)
        /\ cache_tasks' = [cache_tasks EXCEPT ![t] = IdleTask]
        /\ UNCHANGED <<beside_cache, max_size, next_manager>>

\* get_or_create does not find it: a manager is created and put in the cache.
CacheMiss(t) ==
    LET key == cache_key_of(cache_tasks[t].refresh_token, cache_tasks[t].region)
    IN  /\ cache_tasks[t].pc = "locked"
        /\ cache_tasks[t].op = "get_or_create"
        /\ ~Cached(cache, key)
        /\ next_manager' = next_manager + 1
        /\ cache_tasks' = [cache_tasks EXCEPT ![t].pc = "created",
                                             ![t].auth_manager = next_manager + 1]
        /\ UNCHANGED <<beside_cache, max_size, cache, lock, cache_log>>

CacheInsert(t) ==
    LET key == cache_key_of(cache_tasks[t].refresh_token, cache_tasks[t].region)
    IN  /\ cache_tasks[t].pc = "created"
        /\ cache' = set_item(cache, key, cache_tasks[t].auth_manager)
        /\ cache_tasks' = [cache_tasks EXCEPT ![t].pc = "inserted"]
        /\ UNCHANGED <<beside_cache, max_size, lock, next_manager, cache_log>>

\* The oldest entry is evicted if the cache is over its size, and
\* get_or_create returns the new manager.
CacheEvict(t) ==
    LET key == cache_key_of(cache_tasks[t].refresh_token, cache_tasks[t].region)
        evict == over_size(cache, max_size)
    IN  /\ cache_tasks[t].pc = "inserted"
        /\ cache' = IF evict THEN Tail(cache) ELSE cache
        /\ cache_log' = Append(cache_log,
                           [op |-> "get_or_create", task |-> t,
                            keys |-> {key},
                            manager |-> cache_tasks[t].auth_manager,
                            created |-> TRUE,
                            evicted |-> IF evict THEN {Head(cache).key} ELSE {}])
        /\ lock' = Released(t)
        /\ cache_tasks' = [cache_tasks EXCEPT ![t] = IdleTask]
        /\ UNCHANGED <<beside_cache, max_size, next_manager>>

\* remove
CacheRemove(t) ==
    LET keys == keys_to_remove(cache, cache_tasks[t].refresh_token,
                               cache_tasks[t].region)
    IN  /\ cache_tasks[t].pc = "locked"
        /\ cache_tasks[t].op = "remove"
        /\ cache' = Without(cache, keys)
        /\ cache_log' = Append(cache_log,
                           [op |-> "remove", task |-> t, keys |-> keys,
                            manager |-> 0, created |-> FALSE, evicted |-> {}])
        /\ lock' = Released(t)
        /\ cache_tasks' = [cache_tasks EXCEPT ![t] = IdleTask]
        /\ UNCHANGED <<beside_cache, max_size, next_manager>>

\* clear
CacheClear(t) ==
    /\ cache_tasks[t].pc = "locked"
    /\ cache_tasks[t].op = "clear"
    /\ cache' = <<>>
    /\ cache_log' = Append(cache_log,
                       [op |-> "clear", task |-> t,
                        keys |-> {cache[i].key : i \in DOMAIN cache},
                        manager |-> 0, created |-> FALSE, evicted |-> {}])
    /\ lock' = Released(t)
    /\ cache_tasks' = [cache_tasks EXCEPT ![t] = IdleTask]
    /\ UNCHANGED <<beside_cache, max_size, next_manager>>

CacheNext ==
    \E t \in 1..MaxTasks :
       \/ CacheCall(t) \/ CacheAcquire(t)
       \/ CacheHit(t) \/ CacheMiss(t) \/ CacheInsert(t) \/ CacheEvict(t)
       \/ CacheRemove(t) \/ CacheClear(t)

CacheSpec == CacheInit /\ [][CacheNext]_vars

(***************************************************************************)
(* The payload builder: converters.py.  A content is a string or a list    *)
(* of parts; a request here has no tools, no images and no thinking        *)
(* configuration, so the system prompt is the text of its system messages. *)
(***************************************************************************)
MaxMessages == 4

\* ChatMessage.content as a string and as a list of parts.
Str(text) == [list |-> FALSE, text |-> text, parts |-> <<>>]

List(parts) == [list |-> TRUE, text |-> <<>>, parts |-> parts]

\* The parts of a list content: {"type": "text", "text": ...} and
\* {"type": "tool_result", "tool_use_id": ..., "content": ...}.
TextPart(text) ==
    [type |-> "text", text |-> text, tool_use_id |-> <<>>, content |-> <<>>]

ToolResultPart(id, content) ==
    [type |-> "tool_result", text |-> <<>>, tool_use_id |-> id,
     content |-> content]

ChatMessage(role, content, tool_calls, tool_call_id) ==
    [role |-> role, content |-> content, tool_calls |-> tool_calls,
     tool_call_id |-> tool_call_id]

\* The roles of a message.
Roles == {"system", "user", "assistant", "tool"}

EMPTY_RESULT ==
    <<"(", "e", "m", "p", "t", "y", " ", "r", "e", "s", "u", "l", "t", ")">>

CONTINUE == <<"C", "o", "n", "t", "i", "n", "u", "e">>

\* "".join of the text of the text parts.
RECURSIVE JoinText(_)
JoinText(parts) ==
    IF parts = <<>> THEN <<>>
    ELSE (IF Head(parts).type = "text" THEN Head(parts).text ELSE <<>>)
         \o JoinText(Tail(parts))

extract_text_content(content) ==
    IF ~content.list THEN content.text ELSE JoinText(content.parts)

\* The first loop of merge_adjacent_messages: the tool messages become
\* tool results, collected into one user message before the next message
\* of another role and at the end.
RECURSIVE ToolMessagesToUser(_, _)
ToolMessagesToUser(msgs, pending_tool_results) ==
    IF msgs = <<>>
    THEN IF pending_tool_results # <<>>
         THEN <<ChatMessage("user", List(pending_tool_results), <<>>, <<>>)>>
         ELSE <<>>
    ELSE LET msg == Head(msgs)
             text == extract_text_content(msg.content)
         IN  IF msg.role = "tool"
             THEN ToolMessagesToUser(Tail(msgs),
                      Append(pending_tool_results,
                             ToolResultPart(msg.tool_call_id,
                                 IF text # <<>> THEN text ELSE EMPTY_RESULT)))
             ELSE (IF pending_tool_results # <<>>
                   THEN <<ChatMessage("user", List(pending_tool_results),
                                      <<>>, <<>>)>>
                   ELSE <<>>)
                  \o <<msg>> \o ToolMessagesToUser(Tail(msgs), <<>>)

\* The message that replaces last when msg of the same role follows it.
MergeInto(last, msg) ==
    [last EXCEPT
       !.content =
           IF last.content.list /\ msg.content.list
           THEN List(last.content.parts \o msg.content.parts)
           ELSE IF last.content.list
           THEN List(Append(last.content.parts,
                            TextPart(extract_text_content(msg.content))))
           ELSE IF msg.content.list
           THEN List(<<TextPart(extract_text_content(last.content))>>
                     \o msg.content.parts)
           ELSE Str(extract_text_content(last.content) \o <<"\n">>
                    \o extract_text_content(msg.content)),
       !.tool_calls =
           IF msg.role = "assistant" /\ msg.tool_calls # <<>>
           THEN last.tool_calls \o msg.tool_calls
           ELSE last.tool_calls]

\* The second loop of merge_adjacent_messages.
RECURSIVE MergeSameRole(_, _)
MergeSameRole(merged, processed) ==
    IF processed = <<>> THEN merged
    ELSE LET msg == Head(processed)
         IN  IF merged = <<>>
             THEN MergeSameRole(<<msg>>, Tail(processed))
             ELSE LET last == merged[Len(merged)]
                  IN  IF msg.role = last.role
                      THEN MergeSameRole(
                               [merged EXCEPT ![Len(merged)] =
                                    MergeInto(last, msg)],
                               Tail(processed))
                      ELSE MergeSameRole(Append(merged, msg), Tail(processed))

merge_adjacent_messages_as_given(msgs) ==
    ToolMessagesToUser(msgs, <<>>)

merge_adjacent_messages(msgs) ==
    MergeSameRole(<<>>, ToolMessagesToUser(msgs, <<>>))

\* Kiro's tool results of a content.
RECURSIVE ToolResultsOf(_)
ToolResultsOf(parts) ==
    IF parts = <<>> THEN <<>>
    ELSE (IF Head(parts).type = "tool_result"
          THEN <<[content |-> Head(parts).content, status |-> "success",
                  toolUseId |-> Head(parts).tool_use_id]>>
          ELSE <<>>)
         \o ToolResultsOf(Tail(parts))

_extract_tool_results(content) ==
    IF content.list THEN ToolResultsOf(content.parts) ELSE <<>>

\* Kiro's tool uses of a message: its tool_calls (no content here has a
\* tool_use part).
_extract_tool_uses(msg) == msg.tool_calls

UserInputMessage(content, tool_results) ==
    [key |-> "userInputMessage", content |-> content,
     toolResults |-> tool_results, toolUses |-> <<>>]

AssistantResponseMessage(content, tool_uses) ==
    [key |-> "assistantResponseMessage", content |-> content,
     toolResults |-> <<>>, toolUses |-> tool_uses]

RECURSIVE build_kiro_history(_)
build_kiro_history(msgs) ==
    IF msgs = <<>> THEN <<>>
    ELSE LET msg == Head(msgs)
         IN  (IF msg.role = "user"
              THEN <<UserInputMessage(extract_text_content(msg.content),
                                      _extract_tool_results(msg.content))>>
              ELSE IF msg.role = "assistant"
              THEN <<AssistantResponseMessage(
                         extract_text_content(msg.content),
                         _extract_tool_uses(msg))>>
              ELSE <<>>)
             \o build_kiro_history(Tail(msgs))

\* str.strip for texts whose only white space is the line feed.
RECURSIVE LStrip(_)
LStrip(text) ==
    IF text # <<>> /\ Head(text) = "\n" THEN LStrip(Tail(text)) ELSE text

RECURSIVE RStrip(_)
RStrip(text) ==
    IF text # <<>> /\ text[Len(text)] = "\n"
    THEN RStrip(SubSeq(text, 1, Len(text) - 1))
    ELSE text

strip_line_feeds(text) == RStrip(LStrip(text))

RECURSIVE SystemText(_)
SystemText(msgs) ==
    IF msgs = <<>> THEN <<>>
    ELSE (IF Head(msgs).role = "system"
          THEN extract_text_content(Head(msgs).content) \o <<"\n">>
          ELSE <<>>)
         \o SystemText(Tail(msgs))

RECURSIVE NonSystem(_)
NonSystem(msgs) ==
    IF msgs = <<>> THEN <<>>
    ELSE (IF Head(msgs).role = "system" THEN <<>> ELSE <<Head(msgs)>>)
         \o NonSystem(Tail(msgs))

\* _extract_system_and_tool_docs of a request without tools.
_extract_system_and_tool_docs(msgs) ==
    [system_prompt |-> strip_line_feeds(SystemText(msgs)),
     non_system_messages |-> NonSystem(msgs)]

\* The messages of the history, the system prompt put before the first of
\* them when it is a user message.
history_messages(merged, system_prompt) ==
    LET all_but_last == IF Len(merged) > 1
                        THEN SubSeq(merged, 1, Len(merged) - 1)
                        ELSE <<>>
    IN  IF system_prompt # <<>> /\ all_but_last # <<>>
           /\ all_but_last[1].role = "user"
        THEN [all_but_last EXCEPT ![1].content =
                 Str(system_prompt \o <<"\n", "\n">>
                     \o extract_text_content(all_but_last[1].content))]
        ELSE all_but_last

\* The history of build_kiro_payload: that of the messages before the last,
\* and the last message when it is the assistant's.
payload_history(merged, system_prompt) ==
    LET built == build_kiro_history(history_messages(merged, system_prompt))
        current_message == merged[Len(merged)]
        text == extract_text_content(current_message.content)
    IN  IF current_message.role = "assistant"
        THEN Append(built, AssistantResponseMessage(
                 IF system_prompt # <<>> /\ built = <<>>
                 THEN system_prompt \o <<"\n", "\n">> \o text
                 ELSE text, <<>>))
        ELSE built

\* The content of the current message.
payload_current_content(merged, system_prompt) ==
    LET built == build_kiro_history(history_messages(merged, system_prompt))
        current_message == merged[Len(merged)]
        text == extract_text_content(current_message.content)
        with_prompt == IF system_prompt # <<>> /\ built = <<>>
                       THEN system_prompt \o <<"\n", "\n">> \o text
                       ELSE text
    IN  IF current_message.role = "assistant" \/ with_prompt = <<>>
        THEN CONTINUE
        ELSE with_prompt

\* The messages of a role that a request may carry: with a string or a list
\* content, the assistant's with or without a tool call, the tool's with or
\* without a result.
MessagesOf(role) ==
    CASE role = "system" -> {ChatMessage("system", Str(<<"s">>), <<>>, <<>>)}
      [] role = "user" ->
            {ChatMessage("user", Str(<<"u">>), <<>>, <<>>),
             ChatMessage("user", List(<<TextPart(<<"v">>)>>), <<>>, <<>>)}
      [] role = "assistant" ->
            {ChatMessage("assistant", Str(<<"a">>), <<>>, <<>>),
             ChatMessage("assistant", Str(<<>>), <<"c">>, <<>>)}
      [] role = "tool" ->
            {ChatMessage("tool", Str(<<"t">>), <<>>, <<"c">>),
             ChatMessage("tool", Str(<<>>), <<>>, <<>>)}

MessageChoices == UNION {MessagesOf(role) : role \in Roles}

RequestsUpTo(n) ==
    UNION {[1..k -> MessageChoices] : k \in 0..n}

ConvInit ==
    /\ StreamIdle
    /\ ParserIdle
    /\ AllocIdle
    /\ PoolIdle
    /\ CustomIdle
    /\ CacheIdle
    /\ MoreIdle
    /\ messages \in RequestsUpTo(MaxMessages)
    /\ conv_pc = "request"
    /\ merged_messages = <<>>
    /\ history = <<>>
    /\ current_content = <<>>

\* build_kiro_payload, to the history and the current message's content.
BuildKiroPayload ==
    /\ conv_pc = "request"
    /\ LET extracted == _extract_system_and_tool_docs(messages)
           merged == merge_adjacent_messages(extracted.non_system_messages)
       IN  /\ merged_messages' = merged
           /\ IF merged = <<>>
              THEN /\ conv_pc' = "error"
                   /\ UNCHANGED <<history, current_content>>
              ELSE /\ conv_pc' = "built"
                   /\ history' = payload_history(merged,
                                                 extracted.system_prompt)
                   /\ current_content' =
                          payload_current_content(merged,
                                                  extracted.system_prompt)
    /\ UNCHANGED <<beside_conv, messages>>

ConvNext == BuildKiroPayload

ConvSpec == ConvInit /\ [][ConvNext]_vars

(***************************************************************************)
(* Token accounting.  The tokenizer's counts (of the response text, of the *)
(* request's messages and tools) and the model's input limit are inputs;   *)
(* percentages are in tenths of a percent.                                 *)
(***************************************************************************)
MaxCompletionTokens == 4

\* contextUsagePercentage at the end of the stream: none received, 0 %,
\* 0.1 %, 10.0 % and 75.5 %.
FinalPercentages == {None, 0, 1, 100, 755}

UsageRequests ==
    [completion_tokens : 0..MaxCompletionTokens,
     context_usage_percentage : FinalPercentages,
     max_input_tokens : ModelMaxInputTokens,
     request_tokens : {0} \cup RequestTokens]

MaxOfTwo(a, b) == IF a >= b THEN a ELSE b

\* streaming.py _calculate_usage_tokens
_calculate_usage_tokens(completion, percentage, max_tokens, fallback_tokens) ==
    LET total_tokens_from_api ==
            IF percentage # None /\ percentage > 0
            THEN tokens_from_percentage(percentage, max_tokens)
            ELSE 0
    IN  IF total_tokens_from_api > 0
        THEN [prompt_tokens |-> MaxOfTwo(0, total_tokens_from_api
                                            - completion),
              completion_tokens |-> completion,
              total_tokens |-> total_tokens_from_api,
              prompt_source |-> "subtraction"]
        ELSE [prompt_tokens |-> fallback_tokens,
              completion_tokens |-> completion,
              total_tokens |-> fallback_tokens + completion,
              prompt_source |-> "tiktoken"]

\* What _finalize_events stores for message_start and message_delta.
finalize_usage(completion, percentage, max_tokens, fallback_tokens) ==
    LET input_tokens == accurate_input_tokens(percentage, max_tokens,
                                              fallback_tokens)
    IN  [prompt_tokens |-> input_tokens,
         completion_tokens |-> completion,
         total_tokens |-> input_tokens + completion,
         prompt_source |-> IF percentage # None /\ percentage > 0
                           THEN "API Kiro" ELSE "tiktoken"]

UsageInit ==
    /\ StreamIdle
    /\ ParserIdle
    /\ AllocIdle
    /\ PoolIdle
    /\ CustomIdle
    /\ CacheIdle
    /\ ConvIdle
    /\ OpenaiIdle
    /\ usage_request \in UsageRequests
    /\ usage_pc = "response"
    /\ usage_info = <<>>

\* The end of stream_kiro_to_openai_internal and of stream_kiro_to_anthropic:
\* the usage of the final chunk.
CalculateUsageTokens ==
    /\ usage_pc = "response"
    /\ usage_info' = _calculate_usage_tokens(
                         usage_request.completion_tokens,
                         usage_request.context_usage_percentage,
                         usage_request.max_input_tokens,
                         usage_request.request_tokens)
    /\ usage_pc' = "reported"
    /\ UNCHANGED <<beside_usage, usage_request>>

\* The end of the buffered stream: the usage of message_start.
FinalizeUsage ==
    /\ usage_pc = "response"
    /\ usage_info' = finalize_usage(usage_request.completion_tokens,
                                    usage_request.context_usage_percentage,
                                    usage_request.max_input_tokens,
                                    usage_request.request_tokens)
    /\ usage_pc' = "reported"
    /\ UNCHANGED <<beside_usage, usage_request>>

UsageNext == CalculateUsageTokens \/ FinalizeUsage

UsageSpec == UsageInit /\ [][UsageNext]_vars

(***************************************************************************)
(* The OpenAI-to-Claude stream converter: custom_api/converter.py.  A      *)
(* state is OpenAIStreamState with the events yielded so far; the token    *)
(* counts of the usage objects are left out.  An event carries its type,   *)
(* its block index (-1 for none), a kind (the block type of a start, the   *)
(* delta type of a delta, the stop reason of message_delta), its text and, *)
(* for the events of a tool call, the index that call has upstream.        *)
(***************************************************************************)
MaxLines == 4

CE(type, index, kind, text, call) ==
    [type |-> type, index |-> index, kind |-> kind, text |-> text,
     call |-> call]

OpenAIStreamState(thinking) ==
    [content_block_index |-> -1,
     current_tool_call_index |-> -1,
     tool_calls |-> {},
     message_started |-> FALSE,
     content_block_started |-> FALSE,
     finish_reason |-> "",
     thinking_enabled |-> thinking,
     in_thinking_block |-> FALSE,
     thinking_buffer |-> <<>>,
     current_block_type |-> "",
     events |-> <<>>]

Yield(state, event) == [state EXCEPT !.events = Append(@, event)]

_build_message_start == CE("message_start", -1, "", <<>>, -1)

_build_ping == CE("ping", -1, "", <<>>, -1)

_build_content_block_start(index, content_type) ==
    CE("content_block_start", index, content_type, <<>>, -1)

_build_text_delta(index, text) ==
    CE("content_block_delta", index, "text_delta", text, -1)

_build_content_block_stop(index) ==
    CE("content_block_stop", index, "", <<>>, -1)

_build_tool_use_start(index, tool_use_id, call) ==
    CE("content_block_start", index, "tool_use", tool_use_id, call)

_build_tool_use_delta(index, partial_json, call) ==
    CE("content_block_delta", index, "input_json_delta", partial_json, call)

_build_thinking_start(index) ==
    CE("content_block_start", index, "thinking", <<>>, -1)

_build_thinking_delta(index, thinking) ==
    CE("content_block_delta", index, "thinking_delta", thinking, -1)

\* _build_message_stop: message_delta and message_stop in one string.
_build_message_stop(stop_reason) ==
    <<CE("message_delta", -1,
         IF stop_reason # "" THEN stop_reason ELSE "end_turn", <<>>, -1),
      CE("message_stop", -1, "", <<>>, -1)>>

_convert_finish_reason(openai_reason) ==
    CASE openai_reason = "stop" -> "end_turn"
      [] openai_reason = "length" -> "max_tokens"
      [] openai_reason = "tool_calls" -> "tool_use"
      [] openai_reason = "content_filter" -> "end_turn"
      [] openai_reason = "function_call" -> "tool_use"
      [] OTHER -> "end_turn"

\* A text block is opened unless one is open, and the text goes into it.
TextInto(state, text) ==
    LET opened ==
            IF ~state.content_block_started \/ state.current_block_type # "text"
            THEN LET stopped ==
                         IF state.content_block_started
                         THEN Yield(state, _build_content_block_stop(
                                               state.content_block_index))
                         ELSE state
                     index == stopped.content_block_index + 1
                 IN  Yield([stopped EXCEPT !.content_block_index = index,
                                           !.content_block_started = TRUE,
                                           !.current_block_type = "text"],
                           _build_content_block_start(index, "text"))
            ELSE state
    IN  Yield(opened, _build_text_delta(opened.content_block_index, text))

\* The loop of _process_thinking_content, content already in the buffer.
RECURSIVE ThinkingLoop(_)
ThinkingLoop(state) ==
    IF state.in_thinking_block
    THEN LET end_idx == Find(state.thinking_buffer, THINKING_END_TAG)
         IN  IF end_idx # -1
             THEN LET thinking_content == Take(state.thinking_buffer, end_idx)
                      rest == Drop(state.thinking_buffer,
                                   end_idx + Len(THINKING_END_TAG))
                      sent == IF thinking_content # <<>>
                              THEN Yield(state, _build_thinking_delta(
                                       state.content_block_index,
                                       thinking_content))
                              ELSE state
                  IN  ThinkingLoop(
                          [Yield(sent, _build_content_block_stop(
                                           state.content_block_index))
                           EXCEPT !.thinking_buffer = rest,
                                  !.content_block_started = FALSE,
                                  !.in_thinking_block = FALSE,
                                  !.current_block_type = ""])
             ELSE IF state.thinking_buffer # <<>>
                  THEN [Yield(state, _build_thinking_delta(
                                         state.content_block_index,
                                         state.thinking_buffer))
                        EXCEPT !.thinking_buffer = <<>>]
                  ELSE state
    ELSE LET start_idx == Find(state.thinking_buffer, THINKING_START_TAG)
         IN  IF start_idx # -1
             THEN LET text_before == Take(state.thinking_buffer, start_idx)
                      rest == Drop(state.thinking_buffer,
                                   start_idx + Len(THINKING_START_TAG))
                      cut == [state EXCEPT !.thinking_buffer = rest]
                      sent == IF text_before # <<>>
                              THEN TextInto(cut, text_before) ELSE cut
                      stopped ==
                          IF sent.content_block_started
                             /\ sent.current_block_type = "text"
                          THEN [Yield(sent, _build_content_block_stop(
                                                sent.content_block_index))
                                EXCEPT !.content_block_started = FALSE]
                          ELSE sent
                      index == stopped.content_block_index + 1
                  IN  ThinkingLoop(
                          [Yield(stopped, _build_thinking_start(index))
                           EXCEPT !.content_block_index = index,
                                  !.content_block_started = TRUE,
                                  !.in_thinking_block = TRUE,
                                  !.current_block_type = "thinking"])
             ELSE LET held == _check_partial_tag(state.thinking_buffer,
                                                 THINKING_START_TAG)
                      potential_tag_start == Len(state.thinking_buffer) - held
                      text_to_send == Take(state.thinking_buffer,
                                           potential_tag_start)
                      kept == [state EXCEPT !.thinking_buffer =
                                   Drop(@, potential_tag_start)]
                  IN  IF text_to_send # <<>>
                      THEN TextInto(kept, text_to_send)
                      ELSE kept

\* The content joins the buffer and the loop runs.
_process_thinking_content(content, state) ==
    ThinkingLoop([state EXCEPT !.thinking_buffer = @ \o content])

\* One entry of delta.tool_calls.
ToolCallDelta(state, tc) ==
    LET begun ==
            IF tc.id # <<>> \/ tc.name # <<>>
            THEN LET stopped ==
                         IF state.content_block_started
                         THEN Yield(state, _build_content_block_stop(
                                               state.content_block_index))
                         ELSE state
                     index == stopped.content_block_index + 1
                 IN  Yield([stopped EXCEPT
                               !.content_block_index = index,
                               !.current_tool_call_index = tc.index,
                               !.tool_calls = @ \cup {tc.index},
                               !.content_block_started = TRUE],
                           _build_tool_use_start(index, tc.id, tc.index))
            ELSE state
    IN  IF tc.arguments # <<>> /\ tc.index \in begun.tool_calls
        THEN Yield(begun, _build_tool_use_delta(begun.content_block_index,
                                                tc.arguments, tc.index))
        ELSE begun

RECURSIVE ToolCallDeltas(_, _)
ToolCallDeltas(state, tool_calls) ==
    IF tool_calls = <<>> THEN state
    ELSE ToolCallDeltas(ToolCallDelta(state, Head(tool_calls)),
                        Tail(tool_calls))

\* The content of a delta, thinking disabled.
PlainContent(state, content) ==
    LET opened ==
            IF ~state.content_block_started
               \/ state.current_tool_call_index >= 0
            THEN LET index == state.content_block_index + 1
                 IN  Yield([state EXCEPT !.content_block_index = index,
                                         !.content_block_started = TRUE,
                                         !.current_tool_call_index = -1,
                                         !.current_block_type = "text"],
                           _build_content_block_start(index, "text"))
            ELSE state
    IN  Yield(opened, _build_text_delta(opened.content_block_index, content))

convert_openai_delta_to_claude_events(openai_event, state) ==
    LET started ==
            IF ~state.message_started
            THEN [Yield(Yield(state, _build_message_start), _build_ping)
                  EXCEPT !.message_started = TRUE]
            ELSE state
    IN  IF ~openai_event.choices THEN started
        ELSE LET finished ==
                     IF openai_event.finish_reason # ""
                     THEN [started EXCEPT !.finish_reason =
                              _convert_finish_reason(openai_event.finish_reason)]
                     ELSE started
                 content == openai_event.content
                 tool_closed ==
                     IF finished.current_tool_call_index >= 0
                        /\ finished.content_block_started
                     THEN [Yield(finished, _build_content_block_stop(
                                               finished.content_block_index))
                           EXCEPT !.content_block_started = FALSE,
                                  !.current_tool_call_index = -1]
                     ELSE finished
                 with_content ==
                     IF content = <<>> THEN finished
                     ELSE IF tool_closed.thinking_enabled
                     THEN _process_thinking_content(content, tool_closed)
                     ELSE PlainContent(tool_closed, content)
             IN  ToolCallDeltas(with_content, openai_event.tool_calls)

\* The lines of the upstream body: a data line holding an event, the data
\* line [DONE], and any line that is no data line or holds no JSON.
DataLine(openai_event) == [line |-> "data", openai_event |-> openai_event]

DoneLine == [line |-> "[DONE]", openai_event |-> <<>>]

OtherLine == [line |-> "other", openai_event |-> <<>>]

\* convert_openai_stream_to_claude at a "data: [DONE]" line.
stream_done(state) ==
    LET stopped ==
            IF state.content_block_started
            THEN [Yield(state, _build_content_block_stop(
                                   state.content_block_index))
                  EXCEPT !.content_block_started = FALSE]
            ELSE state
    IN  [stopped EXCEPT !.events = @ \o _build_message_stop(state.finish_reason)]

\* convert_openai_stream_to_claude after the last chunk of a stream that
\* ended without [DONE].
stream_end(state) ==
    LET stopped ==
            IF state.content_block_started
            THEN Yield(state, _build_content_block_stop(
                                  state.content_block_index))
            ELSE state
    IN  IF state.message_started
        THEN [stopped EXCEPT !.events =
                  @ \o _build_message_stop(state.finish_reason)]
        ELSE stopped

\* convert_openai_stream_to_claude of a whole body.
RECURSIVE convert_lines(_, _)
convert_lines(lines, state) ==
    IF lines = <<>> THEN stream_end(state)
    ELSE LET line == Head(lines)
         IN  IF line.line = "[DONE]" THEN stream_done(state)
             ELSE IF line.line = "data"
             THEN convert_lines(Tail(lines),
                      convert_openai_delta_to_claude_events(line.openai_event,
                                                            state))
             ELSE convert_lines(Tail(lines), state)

convert_openai_stream_to_claude(lines, thinking) ==
    convert_lines(lines, OpenAIStreamState(thinking)).events

\* The events of the upstream: content deltas (plain, ending with what may
\* begin a tag, and a thinking block whose closing tag is cut in two), the
\* start and an argument fragment of two tool calls, a finish reason, and
\* an event without choices.
OpenaiEvent(content, tool_calls, finish_reason) ==
    [choices |-> TRUE, content |-> content, tool_calls |-> tool_calls,
     finish_reason |-> finish_reason]

ContentPieces ==
    {<<"a">>,
     <<"a", "<">>,
     THINKING_START_TAG \o <<"b">>,
     Take(THINKING_END_TAG, 5),
     Drop(THINKING_END_TAG, 5) \o <<"c">>}

ToolCallIndexes == {0, 1}

CallDigit(i) == IF i = 0 THEN "0" ELSE "1"

ToolStart(i) ==
    [index |-> i, id |-> <<"t", CallDigit(i)>>, name |-> <<"f">>,
     arguments |-> <<>>]

ToolArguments(i) ==
    [index |-> i, id |-> <<>>, name |-> <<>>,
     arguments |-> <<"{", CallDigit(i)>>]

OpenaiEvents ==
    {OpenaiEvent(content, <<>>, "") : content \in ContentPieces}
    \cup {OpenaiEvent(<<>>, <<ToolStart(i)>>, "") : i \in ToolCallIndexes}
    \cup {OpenaiEvent(<<>>, <<ToolArguments(i)>>, "") : i \in ToolCallIndexes}
    \cup {OpenaiEvent(<<>>, <<>>, "tool_calls")}
    \cup {[choices |-> FALSE, content |-> <<>>, tool_calls |-> <<>>,
           finish_reason |-> ""]}

OpenaiInit ==
    /\ StreamIdle
    /\ ParserIdle
    /\ AllocIdle
    /\ PoolIdle
    /\ CustomIdle
    /\ CacheIdle
    /\ ConvIdle
    /\ UsageIdle
    /\ \E thinking \in BOOLEAN : openai_state = OpenAIStreamState(thinking)
    /\ openai_lines = <<>>
    /\ openai_pc = "streaming"

\* A line of the body that is not [DONE].
ReceiveLine ==
    /\ openai_pc = "streaming"
    /\ Len(openai_lines) < MaxLines
    /\ \E line \in {DataLine(e) : e \in OpenaiEvents} \cup {OtherLine} :
          /\ openai_lines' = Append(openai_lines, line)
          /\ openai_state' =
                IF line.line = "data"
                THEN convert_openai_delta_to_claude_events(line.openai_event,
                                                           openai_state)
                ELSE openai_state
    /\ UNCHANGED <<beside_openai, openai_pc>>

\* The line "data: [DONE]".
ReceiveDone ==
    /\ openai_pc = "streaming"
    /\ openai_lines' = Append(openai_lines, DoneLine)
    /\ openai_state' = stream_done(openai_state)
    /\ openai_pc' = "done"
    /\ UNCHANGED beside_openai

\* The body ends without [DONE].
StreamEnds ==
    /\ openai_pc = "streaming"
    /\ openai_state' = stream_end(openai_state)
    /\ openai_pc' = "done"
    /\ UNCHANGED <<beside_openai, openai_lines>>

OpenaiNext == ReceiveLine \/ ReceiveDone \/ StreamEnds

OpenaiSpec == OpenaiInit /\ [][OpenaiNext]_vars

(***************************************************************************)
(* Delegation to an external-API account (custom_api/handler.py).          *)
(***************************************************************************)
MAX_RETRIES == 3
BASE_RETRY_DELAY == 5
MAX_RETRY_DELAY == 60

Min(a, b) == IF a < b THEN a ELSE b

RECURSIVE Pow2(_)
Pow2(n) == IF n = 0 THEN 1 ELSE 2 * Pow2(n - 1)

\* float(retry_after) for the header values of the model: the number of a
\* digit string, NoValue where float raises ValueError.
Digits == <<"0", "1", "2", "3", "4", "5", "6", "7", "8", "9">>

DigitValue(c) == (CHOOSE d \in 1..10 : Digits[d] = c) - 1

IsDigit(c) == \E d \in 1..10 : Digits[d] = c

RECURSIVE float(_)
float(text) ==
    IF text = <<>> \/ \E i \in DOMAIN text : ~IsDigit(text[i]) THEN NoValue
    ELSE IF Len(text) = 1 THEN Just(DigitValue(text[1]))
    ELSE Just(float(Take(text, Len(text) - 1))[1] * 10
              + DigitValue(text[Len(text)]))

\* The delay before the next attempt after a 429.
retry_delay(retry_after, count) ==
    IF retry_after # NoValue /\ retry_after[1] # <<>>
       /\ float(retry_after[1]) # NoValue
    THEN Min(float(retry_after[1])[1], MAX_RETRY_DELAY)
    ELSE Min(BASE_RETRY_DELAY * Pow2(count), MAX_RETRY_DELAY)

\* convert_openai_error_to_claude: the Claude error type for an error body
\* type (or "" when it names none) and a status code.
error_type_map(openai_type) ==
    CASE openai_type = "invalid_request_error" -> "invalid_request_error"
      [] openai_type = "authentication_error" -> "authentication_error"
      [] openai_type = "permission_error" -> "permission_error"
      [] openai_type = "not_found_error" -> "not_found_error"
      [] openai_type = "rate_limit_error" -> "rate_limit_error"
      [] openai_type = "server_error" -> "api_error"
      [] openai_type = "service_unavailable" -> "overloaded_error"
      [] OTHER -> ""

status_type_map(status_code) ==
    CASE status_code = 400 -> "invalid_request_error"
      [] status_code = 401 -> "authentication_error"
      [] status_code = 403 -> "permission_error"
      [] status_code = 404 -> "not_found_error"
      [] status_code = 429 -> "rate_limit_error"
      [] status_code = 500 -> "api_error"
      [] status_code = 502 -> "api_error"
      [] status_code = 503 -> "overloaded_error"
      [] OTHER -> "api_error"

convert_openai_error_to_claude(openai_type, status_code) ==
    IF error_type_map(openai_type) # "" THEN error_type_map(openai_type)
    ELSE status_type_map(status_code)

\* The responses of the external API: a status, the Retry-After header, the
\* type its error body names ("text" for a body that is no JSON), and the
\* lines of the body of a 200.  A status of 0 stands for a request that
\* raised (timeout, connection).
RetryAfters ==
    {NoValue, Just(<<>>), Just(<<"2">>), Just(<<"1", "2", "0">>),
     Just(<<"s", "o", "o", "n">>)}

UpstreamBodies ==
    {<<DataLine(OpenaiEvent(<<"a">>, <<>>, "stop")), DoneLine>>,
     <<DataLine(OpenaiEvent(<<"a">>, <<>>, ""))>>}

CustomResponses ==
    [status_code : {200}, retry_after : {NoValue}, error_type : {""},
     body : UpstreamBodies]
    \cup [status_code : {0}, retry_after : {NoValue}, error_type : {""},
          body : {<<>>}]
    \cup [status_code : {429}, retry_after : RetryAfters,
          error_type : {"text", "", "server_error"}, body : {<<>>}]
    \cup [status_code : {500}, retry_after : {NoValue}, error_type : {"text"},
          body : {<<>>}]

\* The error event for a body of an error response, openai format.
openai_error_event(response, fallback_type) ==
    [event |-> "error",
     type |-> convert_openai_error_to_claude(
                 IF response.error_type = "text" THEN fallback_type
                 ELSE response.error_type,
                 response.status_code)]

_error_event == [event |-> "error", type |-> "api_error"]

\* The bytes of an error event, "event: error\ndata: {json}\n\n", as the
\* lines the converter splits them into: the "event:" line, and a "data:"
\* line whose JSON object has the keys "type" and "error" and no "choices".
encode(sse_error) ==
    <<OtherLine,
      DataLine([choices |-> FALSE, content |-> <<>>, tool_calls |-> <<>>,
                finish_reason |-> "", error |-> sse_error.type])>>

\* openai_byte_stream: what it yields for the response it ends with.
openai_byte_stream(response) ==
    CASE response.status_code = 429 ->
            encode(openai_error_event(response, "rate_limit_error"))
      [] response.status_code = 0 -> encode(_error_event)
      [] response.status_code = 200 -> response.body
      [] OTHER -> encode(openai_error_event(response, "api_error"))

\* An event as the client sees it: its SSE event name, and the error type
\* of an error or the stop reason of a message_delta.
ClientEvent(e) == [event |-> e.type, type |-> e.kind]

\* handle_openai_format_stream: the byte stream goes through the converter.
handle_openai_format_stream(response) ==
    LET converted ==
            convert_openai_stream_to_claude(openai_byte_stream(response), FALSE)
    IN  [i \in DOMAIN converted |-> ClientEvent(converted[i])]

\* handle_claude_format_stream: error events are yielded as they are, the
\* lines of a 200 are passed through.
handle_claude_format_stream(response) ==
    CASE response.status_code = 429 ->
            <<[event |-> "error", type |-> "rate_limit_error"]>>
      [] response.status_code = 0 -> <<_error_event>>
      [] response.status_code = 200 -> <<[event |-> "stream", type |-> ""]>>
      [] OTHER -> <<[event |-> "error", type |-> "api_error"]>>

\* handle_custom_api_request's finally after the loop over the stream ended.
on_success_called(call) == [call EXCEPT !.on_success = @ + 1]

\* The callbacks after the stream raised an Exception: on_fail in
\* handle_custom_api_request's finally, and on_fail again in stream_wrapper's
\* except for a streaming request.
on_fail_after_exception(call) ==
    [call EXCEPT !.on_fail = IF call.stream THEN @ + 2 ELSE @ + 1]

\* The callbacks after the client went away: the generator is closed, its
\* finally runs, and stream_wrapper's "except Exception" catches neither
\* CancelledError nor GeneratorExit.
on_fail_after_cancel(call) == [call EXCEPT !.on_fail = @ + 1]

\* handle_custom_api_request picks the path by the account's format;
\* _handle_custom_api calls it for a streaming or a non-streaming request.
CustomInit ==
    /\ StreamIdle
    /\ ParserIdle
    /\ AllocIdle
    /\ PoolIdle
    /\ CacheIdle
    /\ ConvIdle
    /\ MoreIdle
    /\ api_format \in {"openai", "claude"}
    /\ custom_pc = "sending"
    /\ retry_count = 0
    /\ custom_requests = <<>>
    /\ custom_delays = <<>>
    /\ custom_events = <<>>
    /\ custom_call \in [stream : BOOLEAN, on_success : {0}, on_fail : {0}]

\* openai_byte_stream: one turn of its loop, up to the sleep or the return;
\* after the return the converter's events reach the client and the stream
\* ends.
OpenaiRequest ==
    /\ api_format = "openai"
    /\ custom_pc = "sending"
    /\ retry_count <= MAX_RETRIES
    /\ \E response \in CustomResponses :
          /\ custom_requests' = Append(custom_requests, response)
          /\ IF response.status_code = 429 /\ retry_count < MAX_RETRIES
             THEN /\ custom_delays' =
                        Append(custom_delays,
                               retry_delay(response.retry_after, retry_count))
                  /\ retry_count' = retry_count + 1
                  /\ custom_pc' = "sleeping"
                  /\ UNCHANGED <<custom_events, custom_call>>
             ELSE /\ custom_events' =
                        custom_events \o handle_openai_format_stream(response)
                  /\ custom_call' = on_success_called(custom_call)
                  /\ custom_pc' = "done"
                  /\ UNCHANGED <<custom_delays, retry_count>>
    /\ UNCHANGED <<beside_custom, api_format>>

\* asyncio.sleep(delay) is over: continue.
OpenaiRetry ==
    /\ api_format = "openai"
    /\ custom_pc = "sleeping"
    /\ custom_pc' = "sending"
    /\ UNCHANGED <<beside_custom, api_format, retry_count, custom_requests,
                   custom_delays, custom_events, custom_call>>

\* handle_claude_format_stream: its one request.
ClaudeRequest ==
    /\ api_format = "claude"
    /\ custom_pc = "sending"
    /\ \E response \in CustomResponses :
          /\ custom_requests' = Append(custom_requests, response)
          /\ custom_events' =
                custom_events \o handle_claude_format_stream(response)
    /\ custom_call' = on_success_called(custom_call)
    /\ custom_pc' = "done"
    /\ UNCHANGED <<beside_custom, api_format,
                   retry_count, custom_delays>>

\* The stream raises while a 200's body is converted (the converter logs
\* and re-raises, as on an event whose "delta" is null).
CustomRaises ==
    /\ api_format = "openai"
    /\ custom_pc = "sending"
    /\ \E response \in CustomResponses :
          /\ response.status_code = 200
          /\ custom_requests' = Append(custom_requests, response)
    /\ custom_call' = on_fail_after_exception(custom_call)
    /\ custom_pc' = "raised"
    /\ UNCHANGED <<beside_custom, api_format, retry_count, custom_delays,
                   custom_events>>

\* The client of a streaming request disconnects while the request is
\* under way.
CustomDisconnect ==
    /\ custom_call.stream
    /\ custom_pc \in {"sending", "sleeping"}
    /\ custom_call' = on_fail_after_cancel(custom_call)
    /\ custom_pc' = "cancelled"
    /\ UNCHANGED <<beside_custom, api_format, retry_count, custom_requests,
                   custom_delays, custom_events>>

CustomNext ==
    \/ OpenaiRequest
    \/ OpenaiRetry
    \/ ClaudeRequest
    \/ CustomRaises
    \/ CustomDisconnect

CustomSpec == CustomInit /\ [][CustomNext]_vars

(***************************************************************************)
(* Properties.                                                             *)
(***************************************************************************)
AnthropicStream == engine \in {"anthropic", "buffered"}

\* The generator has exited: returned, or left by an exception.
GeneratorExited == pc \in {"done", "failed", "raised", "cancelled"}

\* The read loop of the engine is still reading.
ReaderAlive ==
    IF engine = "buffered" THEN stream_task = "running" ELSE pc = "reading"

Positions(s, type) == {k \in 1..Len(s) : s[k].type = type}

\* Every delta follows a start of its index and no stop of its index.
DeltasInsideBlocks(s) ==
    \A k \in Positions(s, "content_block_delta") :
        /\ \E j \in 1..(k - 1) :
              s[j].type = "content_block_start" /\ s[j].index = s[k].index
        /\ \A j \in 1..(k - 1) :
              ~(s[j].type = "content_block_stop" /\ s[j].index = s[k].index)

\* Every delta is followed by the stop of its index.
DeltasClosed(s) ==
    \A k \in Positions(s, "content_block_delta") :
        \E j \in (k + 1)..Len(s) :
            s[j].type = "content_block_stop" /\ s[j].index = s[k].index

\* The first start has index 0, every later one an index above all earlier.
StartIndicesIncrease(s) ==
    \A k \in Positions(s, "content_block_start") :
        /\ (\A j \in 1..(k - 1) : s[j].type # "content_block_start") => s[k].index = 0
        /\ \A j \in Positions(s, "content_block_start") :
              j < k => s[j].index < s[k].index

\* C1: in every Anthropic SSE stream of the standard and the buffered engine,
\* each content_block_delta with index i comes after a content_block_start
\* with index i and before the content_block_stop with index i (which a
\* stream that completes does send); the first block has index 0 and every
\* later content_block_start has an index above all earlier ones.
C1_BlockStructure ==
    AnthropicStream =>
        /\ DeltasInsideBlocks(out) /\ StartIndicesIncrease(out)
        /\ DeltasInsideBlocks(event_buffer) /\ StartIndicesIncrease(event_buffer)
        /\ pc = "done" => DeltasClosed(out)

\* A buffered stream completed with three blocks, the third one with a delta.
C1_Witness ==
    /\ engine = "buffered" /\ pc = "done"
    /\ \E k \in Positions(out, "content_block_delta") : out[k].index = 2

\* C2 as stated: for every N with 1 <= N <= first_token_max_retries, after
\* the first N attempts timed out on the first byte the wrapper has not given
\* up with the 504: attempt N+1 is issued.
C2_Original ==
    (engine = "retry" /\ 1 <= attempt /\ attempt <= max_retries)
        => raised # "HTTPException_504"

\* C2 amended: for every N with 1 <= N < first_token_max_retries (the
\* setting counts attempts, not retries): after the first N attempts timed
\* out on the first byte, attempt N+1 is issued, and when it sends bytes the
\* client receives its stream and no error.
C2_RetryOnFirstTokenTimeout ==
    (engine = "retry" /\ 1 <= attempt /\ attempt < max_retries) =>
        /\ raised # "HTTPException_504"
        /\ pc # "start" => hist.requests = attempt + 1
        /\ pc = "reading" =>
              /\ hist.first_byte /\ raised = "none"
              /\ responses[Len(responses)] = "open"
              /\ Len(responses) = attempt + 1

\* The first attempt timed out, the second one is streaming content.
C2_Witness ==
    /\ engine = "retry" /\ max_retries = 2 /\ attempt = 1
    /\ pc = "reading" /\ Len(out) >= 1

\* C3: when every attempt permitted by first_token_max_retries timed out
\* waiting for the first byte, the generator raises HTTP 504, and no chunk
\* was emitted before it.
C3_Exhausted504 ==
    engine = "retry" =>
        /\ (attempt = max_retries /\ pc # "start") =>
              (raised = "HTTPException_504" /\ pc = "raised")
        /\ raised = "HTTPException_504" =>
              (out = <<>> /\ attempt = max_retries /\ hist.requests = max_retries)

\* Two attempts were permitted and both timed out.
C3_Witness ==
    /\ engine = "retry" /\ max_retries = 2 /\ attempt = 2
    /\ raised = "HTTPException_504"

\* C4 as stated: once an attempt has received its first byte the request is
\* never re-issued, and any later failure (a read timeout beyond the
\* tolerated number, a transport error) propagates to the caller.
C4_Original ==
    (engine = "retry" /\ hist.first_byte) =>
        /\ ~hist.reissued
        /\ hist.failure # "none" => raised # "none"

\* C4 amended: once an attempt has received its first byte the request is
\* never re-issued; a read timeout beyond the tolerated number propagates to
\* the caller as StreamReadTimeoutError; a transport error is logged by the
\* inner generator, which ends the stream without the final chunk and
\* without [DONE], and no exception reaches the caller.
C4_NoRetryAfterFirstByte ==
    (engine = "retry" /\ hist.first_byte) =>
        /\ ~hist.reissued
        /\ hist.requests = attempt + 1
        /\ hist.failure = "timeout" =>
              (raised = "StreamReadTimeoutError" /\ pc = "raised")
        /\ hist.failure = "transport" =>
              /\ raised = "none" /\ pc = "done"
              /\ Positions(out, "[DONE]") = {} /\ Positions(out, "final") = {}

\* A transport error ended a stream that had delivered content.
C4_Witness ==
    /\ engine = "retry" /\ hist.first_byte /\ hist.failure = "transport"
    /\ Len(out) >= 1

\* C5: after the first byte, an inter-chunk read timeout is swallowed and
\* reading continues as long as it is at most the 3rd in a row; a chunk read
\* resets the count to zero; the stream is dead only by a timeout that
\* directly follows 3 swallowed ones.
C5_Step ==
    /\ hist'.run = hist.run + 1 =>
          IF hist.run < 3
          THEN ReaderAlive' /\ hist'.failure = "none" /\ out' = out
               /\ consecutive_timeouts' = hist'.run
          ELSE ~ReaderAlive' /\ hist'.failure = "timeout"
    /\ hist'.nread = hist.nread + 1 => (consecutive_timeouts' = 0 /\ hist'.run = 0)
    /\ (hist'.failure = "timeout" /\ hist.failure # "timeout") => hist.run = 3

C5_TimeoutTolerance == [][C5_Step]_vars

\* Three timeouts in a row were swallowed after content had been read, and
\* the reader still reads.
C5_Witness ==
    /\ engine = "retry" /\ hist.first_byte /\ hist.run = 3 /\ ReaderAlive
    /\ Len(out) >= 1

\* C6: every upstream response opened for a client request is closed by the
\* time the streaming generator has exited, on each exit path: normal end, an
\* exception, a first-token timeout before a retry, and cancellation of the
\* generator by client disconnect.
C6_ResponseClosedOnExit ==
    /\ GeneratorExited => \A i \in 1..Len(responses) : responses[i] = "closed"
    /\ (engine = "retry" /\ pc = "start") =>
          \A i \in 1..Len(responses) : responses[i] = "closed"

\* C7: whenever the buffered-mode generator returns or is closed (normal
\* completion, upstream error, client disconnect while it waits between
\* pings), its background task has already finished or has been cancelled.
C7_TaskDoneOnExit ==
    (engine = "buffered" /\ GeneratorExited) =>
        stream_task \in {"finished", "failed", "cancelled"}

\* C8: in buffered mode nothing but ping events reaches the client before
\* the upstream stream has been completely consumed: while the background
\* task is running every event sent is a ping.
C8_OnlyPingsWhileBuffering ==
    (engine = "buffered" /\ stream_task \in {"none", "running"}) =>
        \A k \in 1..Len(out) : out[k].type = "ping"

\* The task is still reading, has buffered content, and a ping was sent.
C8_Witness ==
    /\ engine = "buffered" /\ stream_task = "running"
    /\ Len(event_buffer) >= 2 /\ Len(out) >= 1

\* The message_start events sent to the client.
MessageStarts == {out[k] : k \in Positions(out, "message_start")}

\* The input-token count the upstream percentage p (tenths of a percent)
\* stands for.
DerivedTokens(p) == (p * max_input_tokens) \div 1000

\* C9 as stated: in buffered mode message_start carries the value derived
\* from the context_usage percentage whenever such an event was received
\* (10.0 % of 200 000 is 20000), and the local estimate only when none was.
C9_Original ==
    (engine = "buffered" /\ pc = "done") =>
        \A ms \in MessageStarts :
            /\ hist.ctx_last # None => ms.input_tokens = DerivedTokens(hist.ctx_last)
            /\ hist.ctx_last = None => ms.input_tokens = request_tokens

\* C9 amended: in buffered mode message_start carries the value derived from
\* the last context_usage percentage received whenever that percentage is
\* greater than 0 (10.0 % of 200 000 is exactly 20000), and the local
\* tokenizer estimate when no context_usage event was received or the last
\* percentage received is 0.
C9_AccurateInputTokens ==
    (engine = "buffered" /\ pc = "done") =>
        /\ MessageStarts # {}
        /\ \A ms \in MessageStarts :
              /\ (hist.ctx_last # None /\ hist.ctx_last > 0) =>
                    ms.input_tokens = DerivedTokens(hist.ctx_last)
              /\ (hist.ctx_last = 100 /\ max_input_tokens = 200000) =>
                    ms.input_tokens = 20000
              /\ (hist.ctx_last = None \/ hist.ctx_last = 0) =>
                    ms.input_tokens = request_tokens

\* A buffered stream completed after a context_usage event of 10.0 %.
C9_Witness ==
    /\ engine = "buffered" /\ pc = "done" /\ hist.ctx_last = 100
    /\ \E ms \in MessageStarts : ms.input_tokens = 20000

ContentBlockEvent(e) ==
    e.type \in {"content_block_start", "content_block_delta", "content_block_stop"}

\* C10: every Anthropic SSE stream that completes without error has exactly
\* one message_start, which precedes every content-block event, and exactly
\* one message_delta immediately followed by exactly one message_stop, which
\* is the last event; in buffered mode the buffered content events appear
\* between them in the order in which they were produced.
C10_MessageEnvelope ==
    (AnthropicStream /\ pc = "done") =>
        /\ Cardinality(Positions(out, "message_start")) = 1
        /\ Cardinality(Positions(out, "message_delta")) = 1
        /\ Cardinality(Positions(out, "message_stop")) = 1
        /\ Positions(out, "error") = {}
        /\ out[Len(out)].type = "message_stop"
        /\ out[Len(out) - 1].type = "message_delta"
        /\ \A k \in 1..Len(out) :
              ContentBlockEvent(out[k]) =>
                  \E j \in 1..(k - 1) : out[j].type = "message_start"
        /\ engine = "buffered" =>
              \E k \in Positions(out, "message_start") :
                  /\ SubSeq(out, k + 1, k + Len(hist.produced)) = hist.produced
                  /\ SubSeq(out, k + 1, Len(out)) = event_buffer
                  /\ \A j \in 1..(k - 1) : out[j].type = "ping"

\* A buffered stream completed after a ping, with buffered content events.
C10_Witness ==
    /\ engine = "buffered" /\ pc = "done"
    /\ Len(hist.produced) >= 4 /\ hist.pings >= 1


\* The content blocks of a stream, in the order they were started: the kind
\* of each and the concatenation of its deltas.
RECURSIVE DeltaText(_, _)
DeltaText(s, index) ==
    IF s = <<>> THEN <<>>
    ELSE (IF Head(s).type = "content_block_delta" /\ Head(s).index = index
          THEN Head(s).text ELSE <<>>)
         \o DeltaText(Tail(s), index)

RECURSIVE ContentBlocks(_, _)
ContentBlocks(s, all) ==
    IF s = <<>> THEN <<>>
    ELSE (IF Head(s).type = "content_block_start"
          THEN <<[block |-> Head(s).block, text |-> DeltaText(all, Head(s).index)]>>
          ELSE <<>>)
         \o ContentBlocks(Tail(s), all)

\* Number of blocks started and not stopped after the first n events.
OpenBlocks(s, n) ==
    Cardinality({i \in 1..n : s[i].type = "content_block_start"})
    - Cardinality({i \in 1..n : s[i].type = "content_block_stop"})

OneBlockAtATime(s) ==
    /\ \A n \in 0..Len(s) : OpenBlocks(s, n) \in {0, 1}
    /\ \A j \in Positions(s, "content_block_start") :
          \A i \in Positions(s, "content_block_start") :
             i < j => \E k \in Positions(s, "content_block_stop") :
                         i < k /\ k < j /\ s[k].index = s[i].index

\* The scenario's upstream: 'a<thi' then 'nking>b</thinking>c'.
ScenarioContents ==
    << <<"a">> \o Take(THINKING_START_TAG, 4),
       Drop(THINKING_START_TAG, 4) \o <<"b">> \o THINKING_END_TAG \o <<"c">> >>

\* C13: in the Anthropic stream (and in the buffer of the buffered one) at
\* most one content block is open at a time, a block that was started gets its
\* content_block_stop before the next block is started; and when the upstream
\* content was 'a<thi' followed by 'nking>b</thinking>c' with thinking
\* enabled, the completed stream's blocks are text 'a', thinking 'b',
\* text 'c', in this order, followed only by tool_use blocks.
C13_OneOpenBlock ==
    /\ OneBlockAtATime(out)
    /\ OneBlockAtATime(event_buffer)
    /\ (engine \in {"anthropic", "buffered"} /\ pc = "done" /\ thinking_enabled
            /\ hist.contents = ScenarioContents) =>
          LET blocks == ContentBlocks(out, out)
          IN  /\ Len(blocks) >= 3
              /\ SubSeq(blocks, 1, 3) =
                    << [block |-> "text", text |-> <<"a">>],
                       [block |-> "thinking", text |-> <<"b">>],
                       [block |-> "text", text |-> <<"c">>] >>
              /\ \A i \in 4..Len(blocks) : blocks[i].block = "tool_use"

\* C13 witness: the standard stream completed on the scenario's upstream.
C13_Witness ==
    /\ engine = "anthropic" /\ pc = "done" /\ thinking_enabled
    /\ hist.contents = ScenarioContents
    /\ Cardinality(Positions(out, "content_block_stop")) >= 3

\* The generator produced an error event and returned.
C14_Step ==
    pc = "failed" => (pc' = "failed" /\ out' = out)

Received == Concat(parse_fed)

Upstream == Received \o parse_rest

Occurrences(text, tag) ==
    {i \in 0..(Len(text) - Len(tag)) : SubSeq(text, i + 1, i + Len(tag)) = tag}

\* text holds exactly one <thinking> and, after it, exactly one </thinking>.
OnePair(text) ==
    /\ Cardinality(Occurrences(text, THINKING_START_TAG)) = 1
    /\ Cardinality(Occurrences(text, THINKING_END_TAG)) = 1
    /\ Find(text, THINKING_START_TAG) + Len(THINKING_START_TAG)
          <= Find(text, THINKING_END_TAG)

Interior(text) ==
    SubSeq(text, Find(text, THINKING_START_TAG) + Len(THINKING_START_TAG) + 1,
           Find(text, THINKING_END_TAG))

ActionPositions(events, action) ==
    {i \in 1..Len(events) : events[i].type = "thinking" /\ events[i].action = action}

RECURSIVE ContentOf(_, _)
ContentOf(events, type) ==
    IF events = <<>> THEN <<>>
    ELSE (IF Head(events).type = type THEN Head(events).content ELSE <<>>)
         \o ContentOf(Tail(events), type)

\* Every character with the kind of content it is.
Mark(text, type) == [i \in 1..Len(text) |-> [ch |-> text[i], type |-> type]]

RECURSIVE MarkedContent(_)
MarkedContent(events) ==
    IF events = <<>> THEN <<>>
    ELSE Mark(Head(events).content, Head(events).type) \o MarkedContent(Tail(events))

\* The text with its tags removed, read from left to right: outside a
\* thinking block the next <thinking> opens one, inside the next </thinking>
\* closes it.
RECURSIVE TagsRemoved(_, _)
TagsRemoved(text, inside) ==
    LET tag == IF inside THEN THINKING_END_TAG ELSE THINKING_START_TAG
    IN  IF text = <<>> THEN <<>>
        ELSE IF Len(text) >= Len(tag) /\ Take(text, Len(tag)) = tag
             THEN TagsRemoved(Drop(text, Len(tag)), ~inside)
             ELSE <<[ch |-> Head(text), type |-> IF inside THEN "thinking" ELSE "text"]>>
                  \o TagsRemoved(Tail(text), inside)

\* C11: a text with one <thinking>...</thinking> pair, cut into chunks at any
\* positions and followed by flush, gives exactly one thinking start and one
\* thinking stop, in this order, every thinking delta lies between them, and
\* the thinking deltas concatenate to the text between the tags (for
\* KiroThinkingTagParser, which has no start and stop: the thinking segments
\* concatenate to that text).
C11_OnePairOneBlock ==
    (parse_pc = "flushed" /\ handler_enabled /\ OnePair(Upstream)) =>
        LET starts == ActionPositions(handler_events, "start")
            stops == ActionPositions(handler_events, "stop")
            deltas == ActionPositions(handler_events, "delta")
        IN  /\ Cardinality(starts) = 1
            /\ Cardinality(stops) = 1
            /\ \A i \in starts : \A j \in stops : i < j
            /\ \A d \in deltas : \A i \in starts : \A j \in stops : i < d /\ d < j
            /\ ContentOf(handler_events, "thinking") = Interior(Upstream)
            /\ ContentOf(kiro_segments, "thinking") = Interior(Upstream)

\* C11 witness: a one-pair text with a non-empty interior was cut inside its
\* opening tag and inside its closing tag, and the parsers were flushed.
C11_Witness ==
    /\ parse_pc = "flushed" /\ handler_enabled /\ OnePair(Upstream)
    /\ Interior(Upstream) # <<>>
    /\ Len(parse_fed) = 3
    /\ LET s == Find(Upstream, THINKING_START_TAG)
           e == Find(Upstream, THINKING_END_TAG)
           cut1 == Len(parse_fed[1])
           cut2 == Len(parse_fed[1]) + Len(parse_fed[2])
       IN  /\ s < cut1 /\ cut1 < s + Len(THINKING_START_TAG)
           /\ e < cut2 /\ cut2 < e + Len(THINKING_END_TAG)

\* C12: at every moment the content emitted so far followed by the content
\* still buffered is the text received so far with its recognised tags
\* removed, character for character and kind for kind; after flush nothing
\* is buffered, so the emitted content is the whole input without its tags.
\* A disabled handler recognises no tag and passes everything on as text.
C12_NoByteLost ==
    /\ parse_pc \in {"feeding", "flushed"} =>
          /\ MarkedContent(handler_events)
                \o Mark(handler.thinking_buffer,
                        IF handler.in_thinking_block THEN "thinking" ELSE "text")
             = IF handler_enabled THEN TagsRemoved(Received, FALSE)
                                  ELSE Mark(Received, "text")
          /\ MarkedContent(kiro_segments)
                \o Mark(kiro._buffer,
                        IF kiro._is_thinking_mode THEN "thinking" ELSE "text")
             = TagsRemoved(Received, FALSE)
    /\ parse_pc = "flushed" =>
          /\ parse_rest = <<>>
          /\ handler.thinking_buffer = <<>>
          /\ kiro._buffer = <<>>

\* C12 witness: the stream ended inside a thinking block while the beginning
\* of a closing tag was held back, and flush emitted it.
C12_Witness ==
    /\ parse_pc = "flushed" /\ handler_enabled
    /\ Len(parse_fed) > 1
    /\ EndsWith(Upstream, Take(THINKING_END_TAG, 2))
    /\ handler.in_thinking_block
    /\ handler_events # <<>>
    /\ handler_events[Len(handler_events)] =
          TE("thinking", Take(THINKING_END_TAG, 2), "delta")
    /\ kiro_segments[Len(kiro_segments)] =
          TextSegment("thinking", Take(THINKING_END_TAG, 2))

(***************************************************************************)
(* Token-pool allocator (AllocSpec).                                       *)
(***************************************************************************)
UserRequest == request.user_id # None

\* The credentials of the request's user, and those the allocator may use
\* for the user: active, and private when self-use mode is on.
OwnCredentials == {t \in DOMAIN credentials : credentials[t].owner = request.user_id}

ActiveOwnCredentials == {t \in OwnCredentials : credentials[t].status = "active"}

UsableOwnCredentials ==
    {t \in ActiveOwnCredentials :
        self_use_enabled => credentials[t].visibility = "private"}

OwnAccounts ==
    {a \in DOMAIN custom_api_accounts : custom_api_accounts[a].owner = request.user_id}

Blank(text) == \A k \in DOMAIN text : text[k] = " "

\* model is an entry of the whitelist text: it fills, but for blanks around
\* it, a stretch of text that lies between two commas (or the ends).
EntryOf(model, text) ==
    /\ model # <<>>
    /\ \E i \in 1..Len(text) :
          \E j \in i..Len(text) :
             /\ j - i + 1 = Len(model)
             /\ SubSeq(text, i, j) = model
             /\ \E from \in 1..i :
                   /\ from = 1 \/ text[from - 1] = ","
                   /\ Blank(SubSeq(text, from, i - 1))
             /\ \E to \in j..Len(text) :
                   /\ to = Len(text) \/ text[to + 1] = ","
                   /\ Blank(SubSeq(text, j + 1, to))

Whitelisted(a, model) == EntryOf(model, custom_api_accounts[a].model)

\* The names the model takes for Pro+-only: the opus ones, sonnet 4.6, and
\* the configured id.
ProPlusRequest == request.model \in (Models \ {<<>>, <<"s", "o", "n", "n", "e", "t", "-", "4">>})

C18_Original ==
    allocation.type = "custom_api" => Whitelisted(allocation.id, request.model)

\* C18: in the Pro+ selection (Pro+ model, and the user has a usable
\* credential with opus_enabled or an account listing the model) an
\* external-API account is returned only if the model is an entry of its
\* whitelist; the draw over the full pool (normal tier, Pro+ fallback)
\* returns accounts whatever their whitelist.
C18_WhitelistInProPlusSelection ==
    (allocation.type = "custom_api" /\ ProPlusRequest
        /\ (\/ \E t \in UsableOwnCredentials : credentials[t].opus_enabled
            \/ \E a \in OwnAccounts : Whitelisted(a, request.model)))
    => Whitelisted(allocation.id, request.model)

\* C18 witness: Pro+ model 'sonnet-4.6', the account's whitelist is
\* ' Opus , sonnet-4.6', and the account was returned.
C18_Witness ==
    /\ allocation.type = "custom_api"
    /\ request.model = <<"s", "o", "n", "n", "e", "t", "-", "4", ".", "6">>
    /\ Len(custom_api_accounts[allocation.id].model) > Len(request.model)
    /\ Whitelisted(allocation.id, request.model)

\* C19: for a request with a user id, whatever is returned belongs to that
\* user, and a user with no usable credential and no external-API account
\* gets NoTokenAvailable, whatever the public pool holds.
C19_OwnAccountsOnly ==
    UserRequest =>
        /\ allocation.type = "kiro" => allocation.id \in UsableOwnCredentials
        /\ allocation.type = "custom_api" => allocation.id \in OwnAccounts
        /\ (UsableOwnCredentials = {} /\ OwnAccounts = {} /\ allocation.type # "none")
              => allocation = NoTokenAvailable

\* C19 witness: the public pool is open and holds a credential, the user has
\* nothing usable, and the request was refused.
C19_Witness ==
    /\ UserRequest /\ ~self_use_enabled
    /\ \E t \in DOMAIN credentials :
          /\ credentials[t].owner # request.user_id
          /\ credentials[t].visibility = "public"
          /\ credentials[t].status = "active"
    /\ UsableOwnCredentials = {} /\ OwnAccounts = {}
    /\ OwnCredentials # {}
    /\ allocation = NoTokenAvailable

\* The body's top-level reason or message names the monthly quota.
QuotaRejection(body) ==
    /\ body.json
    /\ \/ /\ body.reason # NoValue
          /\ Contains(body.reason[1], MONTHLY_REQUEST_COUNT)
       \/ /\ body.message # NoValue
          /\ Contains(body.message[1], MONTHLY_REQUEST_COUNT)

\* C20: once handle_api_error has handled a rejection whose reason or message
\* contains MONTHLY_REQUEST_COUNT, the credential allocated to the request
\* has status expired.
C20_QuotaExpiresCredential ==
    (/\ allocation.type = "kiro"
     /\ upstream_error # NoValue
     /\ QuotaRejection(upstream_error[1]))
        => credentials[allocation.id].status = "expired"

\* C21: an upstream HTTP 400 whose reason is MONTHLY_REQUEST_COUNT_REACHED is
\* answered with HTTP 400 and the error type invalid_request_error.
C21_QuotaIsInvalidRequest ==
    (/\ upstream_error # NoValue
     /\ upstream_error[1].json
     /\ upstream_error[1].status_code = 400
     /\ upstream_error[1].reason = Just(MONTHLY_REQUEST_COUNT_REACHED))
        => client_response
             = Just([status_code |-> 400, type |-> "invalid_request_error"])

\* C22: no step of the allocator, of the health checker or of the upstream
\* error handling turns an invalid or expired credential active again.
C22_StatusOneWay ==
    [][\A t \in DOMAIN credentials :
          credentials[t].status \in {"invalid", "expired"}
             => credentials'[t].status # "active"]_vars

\* C22 witness: a credential the round found active was expired by a request's
\* quota error before its check, passed the check, and is still expired.
C22_Witness ==
    \E t \in DOMAIN credentials :
       /\ credentials[t].status = "expired"
       /\ t \in health_round.snapshot
       /\ \E o \in health_round.outcomes : o[1] = t /\ o[2].kind = "valid"
       /\ last_check[t] = Just([success |-> TRUE, error |-> <<>>])

\* A health-check round is over.
RoundOver == health_round.pc = "idle" /\ health_round.rounds > 0

\* The error check_token is to record for a failed check.
TruncatedError(outcome) ==
    CASE outcome.kind = "no_credentials" -> FAILED_TO_GET_TOKEN_CREDENTIALS
      [] outcome.kind = "no_access_token" -> NO_ACCESS_TOKEN_RETURNED
      [] outcome.kind = "raised" ->
            IF Len(outcome.error) <= ERROR_LIMIT THEN outcome.error
            ELSE SubSeq(outcome.error, 1, ERROR_LIMIT)

FailureRecorded(t, outcome) ==
    /\ last_check[t] = Just([success |-> FALSE, error |-> TruncatedError(outcome)])
    /\ Len(last_check[t][1].error) <= ERROR_LIMIT

OutcomePending ==
    /\ allocation.type = "kiro"
    /\ client_response # NoValue
    /\ ~request_phase.recorded

C25_RateLimitRetried ==
    /\ Len(custom_delays) <= MAX_RETRIES
    /\ \A i \in DOMAIN custom_delays : custom_delays[i] <= MAX_RETRY_DELAY
    /\ (custom_pc = "done"
        /\ custom_requests[Len(custom_requests)].status_code = 429)
          => /\ Len(custom_delays) = MAX_RETRIES
             /\ custom_events[Len(custom_events)]
                   = [event |-> "error", type |-> "rate_limit_error"]

\* The tasks inside "async with self.lock".
InLock == {t \in DOMAIN cache_tasks : cache_tasks[t].pc \in {"locked", "created", "inserted"}}

\* C26: whenever no get_or_create is between its insertion and its return,
\* the cache holds at most max_size entries.
C26_CacheWithinMaxSize ==
    (\A t \in DOMAIN cache_tasks : cache_tasks[t].pc # "inserted")
        => Len(cache) <= max_size

\* C26 witness: a get_or_create into a full cache has returned, and the cache
\* is full.
C26_Witness ==
    /\ lock = 0
    /\ Len(cache) = max_size
    /\ \E i \in DOMAIN cache_log : cache_log[i].evicted # {}

\* The place in the log of the latest get_or_create of a key, 0 if none.
LastUse(log, key) ==
    LET uses == {i \in DOMAIN log :
                    log[i].op = "get_or_create" /\ key \in log[i].keys}
    IN  IF uses = {} THEN 0 ELSE CHOOSE i \in uses : \A j \in uses : j <= i

\* C27: a get_or_create that evicts an entry evicts a key other than the
\* one it inserted, and every key left in the cache was used by a later
\* get_or_create than the evicted key.
C27_EvictsLeastRecentlyUsed ==
    [][(/\ Len(cache_log') = Len(cache_log) + 1
        /\ cache_log'[Len(cache_log')].evicted # {})
          => LET call == cache_log'[Len(cache_log')]
             IN  /\ call.evicted \cap call.keys = {}
                 /\ \A e \in call.evicted : \A i \in DOMAIN cache' :
                       /\ cache'[i].key # e
                       /\ 0 < LastUse(cache_log', e)
                       /\ LastUse(cache_log', e)
                             < LastUse(cache_log', cache'[i].key)]_vars

\* C27 witness: with room for two, the first key was used again after the
\* second was inserted, and the third insertion evicted the second.
C27_Witness ==
    /\ max_size = 2
    /\ Len(cache_log) = 4
    /\ cache_log[1].created /\ cache_log[2].created
    /\ cache_log[3].op = "get_or_create" /\ ~cache_log[3].created
    /\ cache_log[3].keys = cache_log[1].keys
    /\ cache_log[4].evicted = cache_log[2].keys

\* The key is removed, cleared or evicted by the call.
Dropped(call, key) ==
    \/ call.op \in {"remove", "clear"} /\ key \in call.keys
    \/ key \in call.evicted

\* C28: at most one task is inside the lock, and two get_or_create calls for
\* the same key with no removal or eviction of the key between them return
\* the same manager.
C28_SameManager ==
    /\ Cardinality(InLock) <= 1
    /\ \A i \in DOMAIN cache_log : \A j \in DOMAIN cache_log :
          (/\ i < j
           /\ cache_log[i].op = "get_or_create"
           /\ cache_log[j].op = "get_or_create"
           /\ cache_log[i].keys = cache_log[j].keys
           /\ \A k \in (i + 1)..(j - 1) :
                 \A key \in cache_log[i].keys : ~Dropped(cache_log[k], key))
             => cache_log[i].manager = cache_log[j].manager

\* C28 witness: two tasks got the same manager for a key, and now one waits
\* for the lock while the other, with the same arguments, is creating.
C28_Witness ==
    /\ \E i \in DOMAIN cache_log : \E j \in DOMAIN cache_log :
          /\ i < j
          /\ cache_log[i].task # cache_log[j].task
          /\ cache_log[i].created /\ cache_log[j].op = "get_or_create"
          /\ cache_log[i].manager = cache_log[j].manager
    /\ \E t \in DOMAIN cache_tasks : \E u \in DOMAIN cache_tasks :
          /\ cache_tasks[t].pc = "created"
          /\ cache_tasks[u].pc = "acquire"
          /\ cache_tasks[u].op = "get_or_create"
          /\ cache_key_of(cache_tasks[u].refresh_token, cache_tasks[u].region)
                = cache_key_of(cache_tasks[t].refresh_token, cache_tasks[t].region)

\* C29: every manager the allocator holds for a credential is an entry of
\* the manager cache, which holds at most max_size entries.
C29_AllocatorManagersInCache ==
    /\ Cardinality(_token_managers) <= Len(cache)
    /\ Len(cache) <= max_size

\* A payload was built for the request.
PayloadBuilt == conv_pc = "built"

\* C30: in the history of a built payload no entry has the role of the entry
\* before it, the assistant's last message appended to it included.
C30_HistoryAlternates ==
    PayloadBuilt =>
        \A i \in 1..(Len(history) - 1) : history[i].key # history[i + 1].key

\* C30 witness: a request with two messages of one role in a row and a tool
\* message, ending with the assistant, gave a history of three entries or
\* more whose last is the assistant's message.
C30_Witness ==
    /\ PayloadBuilt
    /\ \E i \in 1..(Len(messages) - 1) :
           messages[i].role = messages[i + 1].role
    /\ \E i \in DOMAIN messages : messages[i].role = "tool"
    /\ messages[Len(messages)].role = "assistant"
    /\ Len(history) >= 3
    /\ history[Len(history)].key = "assistantResponseMessage"
    /\ current_content = CONTINUE

\* The system prompt of the request: the text of its system messages.
SystemPromptOf(msgs) == _extract_system_and_tool_docs(msgs).system_prompt

I_WILL_FOLLOW_THESE_INSTRUCTIONS ==
    <<"I", " ", "w", "i", "l", "l", " ", "f", "o", "l", "l", "o", "w", " ",
      "t", "h", "e", "s", "e", " ", "i", "n", "s", "t", "r", "u", "c", "t",
      "i", "o", "n", "s", ".">>

\* C31: the history of a payload built for a request with a system text
\* starts with a user entry whose content is that text and a line feed,
\* followed by the policy text, and an assistant entry that says "I will
\* follow these instructions."; the content of the current message is that
\* of the user's own last message.
C31_SyntheticPair ==
    (PayloadBuilt /\ SystemPromptOf(messages) # <<>>) =>
        LET S == SystemPromptOf(messages)
            last == merged_messages[Len(merged_messages)]
        IN  /\ Len(history) >= 2
            /\ history[1].key = "userInputMessage"
            /\ Len(history[1].content) > Len(S)
            /\ Take(history[1].content, Len(S) + 1) = S \o <<"\n">>
            /\ history[2].key = "assistantResponseMessage"
            /\ history[2].content = I_WILL_FOLLOW_THESE_INSTRUCTIONS
            /\ (last.role = "user" /\ extract_text_content(last.content) # <<>>)
                  => current_content = extract_text_content(last.content)

\* round(p / 100 x model_max_input), p in tenths of a percent.
RoundedTokens(p10, max_tokens) == (p10 * max_tokens + 500) \div 1000

\* C32: when a context_usage percentage above 0 was received, the input
\* tokens reported at the end are the rounded share of the model's input
\* limit, whatever the number of output tokens.
C32_InputTokensFromPercentage ==
    (/\ usage_pc = "reported"
     /\ usage_request.context_usage_percentage # None
     /\ usage_request.context_usage_percentage > 0)
        => usage_info.prompt_tokens =
               RoundedTokens(usage_request.context_usage_percentage,
                             usage_request.max_input_tokens)

\* The step sends a ping to the client.
PingSent == out' = Append(out, SSE("ping", -1, "", <<>>, None))

\* A second of the buffered generator's sleep ends.
SecondPasses == engine = "buffered" /\ pc = "sleeping" /\ pc' = "waiting"

\* C33: in buffered mode, with since_ping the seconds since buffering began
\* or since the last ping, the 25 s are never exceeded without a ping; a
\* second that ends the 25 s sends one ping and starts the count again, any
\* other second sends nothing and adds one to the count; and a ping is sent
\* by no other step, so two pings are 25 s apart or more.
C33_PingEveryInterval ==
    /\ [](engine = "buffered" => since_ping < PING_INTERVAL_SECONDS)
    /\ [][/\ SecondPasses =>
                IF since_ping + 1 = PING_INTERVAL_SECONDS
                THEN PingSent /\ since_ping' = 0
                     /\ hist'.pings = hist.pings + 1
                ELSE out' = out /\ since_ping' = since_ping + 1
                     /\ hist'.pings = hist.pings
          /\ (engine = "buffered" /\ (PingSent \/ hist'.pings # hist.pings))
                => SecondPasses /\ since_ping + 1 = PING_INTERVAL_SECONDS]_vars

\* C33 witness: the second ping has just been sent, 25 s after the first,
\* and the task is still running.
C33_Witness ==
    /\ engine = "buffered" /\ stream_task = "running"
    /\ hist.pings = 2
    /\ Len(out) = 2 /\ out[1].type = "ping" /\ out[2].type = "ping"
    /\ since_ping = 0 /\ pc = "waiting"

\* The events the converter has yielded, and whether it has returned.
ClaudeEvents == openai_state.events

Converted == openai_pc = "done"

\* The blocks of a stream of events: of each block, in order, its type and
\* the text of its deltas joined.
RECURSIVE BlocksOf(_, _)
BlocksOf(events, blocks) ==
    IF events = <<>> THEN blocks
    ELSE LET e == Head(events)
         IN  BlocksOf(Tail(events),
                 IF e.type = "content_block_start"
                 THEN Append(blocks, [type |-> e.kind, text |-> <<>>])
                 ELSE IF e.type = "content_block_delta"
                         /\ e.index + 1 \in DOMAIN blocks
                 THEN [blocks EXCEPT ![e.index + 1].text = @ \o e.text]
                 ELSE blocks)

\* The body is made of content deltas only.
ContentOnly ==
    \A k \in DOMAIN openai_lines :
        /\ openai_lines[k].line = "data"
        /\ openai_lines[k].openai_event.choices
        /\ openai_lines[k].openai_event.content # <<>>

\* The content of the body, joined.
RECURSIVE JoinedContent(_)
JoinedContent(lines) ==
    IF lines = <<>> THEN <<>>
    ELSE Head(lines).openai_event.content \o JoinedContent(Tail(lines))

\* C36: with thinking enabled, the blocks made from a body of content deltas
\* (their types and their texts) are those made from the same content
\* arriving in one delta, also when a delta ends inside the closing tag.
C36_SplitIndependent ==
    (Converted /\ openai_state.thinking_enabled /\ ContentOnly
     /\ openai_lines # <<>>)
        => BlocksOf(ClaudeEvents, <<>>)
              = BlocksOf(convert_openai_stream_to_claude(
                             <<DataLine(OpenaiEvent(
                                   JoinedContent(openai_lines), <<>>, ""))>>,
                             TRUE), <<>>)

\* C37: with thinking enabled, when the converter returns, nothing is left
\* in the buffer where it holds back what may begin a tag: the text held
\* back was sent in a text delta.
C37_HeldTextEmitted ==
    (Converted /\ openai_state.thinking_enabled)
        => openai_state.thinking_buffer = <<>>

\* The place of the content_block_start of the tool call of the delta at k.
ToolStartOf(events, k) ==
    MaxOf({0} \cup {j \in 1..(k - 1) :
                       /\ events[j].type = "content_block_start"
                       /\ events[j].kind = "tool_use"
                       /\ events[j].call = events[k].call})

\* C39: every input_json_delta follows the content_block_start of its tool
\* call, carries that block's index, and no content_block_stop of that block
\* lies between the two.
C39_ToolDeltaInItsBlock ==
    \A k \in DOMAIN ClaudeEvents :
        ClaudeEvents[k].kind = "input_json_delta"
           => LET j == ToolStartOf(ClaudeEvents, k)
              IN  /\ j > 0
                  /\ ClaudeEvents[k].index = ClaudeEvents[j].index
                  /\ \A m \in (j + 1)..(k - 1) :
                        ~(ClaudeEvents[m].type = "content_block_stop"
                          /\ ClaudeEvents[m].index = ClaudeEvents[j].index)

\* C40: message_delta and message_stop are yielded only after message_start.
C40_StartBeforeStop ==
    \A k \in DOMAIN ClaudeEvents :
        ClaudeEvents[k].type \in {"message_delta", "message_stop"}
           => \E j \in 1..(k - 1) : ClaudeEvents[j].type = "message_start"

(***************************************************************************)
(* Delegation: error events and callbacks (CustomSpec).                    *)
(***************************************************************************)
\* The delegated request ended with a response that is no 200: another
\* status, a 429 after the last retry, or a request that raised.
EndedOnError ==
    /\ custom_pc = "done"
    /\ custom_requests[Len(custom_requests)].status_code # 200

HasEvent(events, name) == \E i \in DOMAIN events : events[i].event = name

\* message_start, then message_delta with stop reason end_turn, then
\* message_stop.
NormalMessage(events) ==
    \E i, j, k \in DOMAIN events :
        /\ i < j
        /\ j < k
        /\ events[i].event = "message_start"
        /\ events[j] = [event |-> "message_delta", type |-> "end_turn"]
        /\ events[k].event = "message_stop"

\* C34: a request delegated with format "openai" that ends on an error
\* response gives the client an error event, and no message_start,
\* message_delta(end_turn), message_stop sequence.
C34_ErrorEventReachesClient ==
    (api_format = "openai" /\ EndedOnError)
        => /\ HasEvent(custom_events, "error")
           /\ ~NormalMessage(custom_events)

\* C35: a delegated request that is over has called exactly one of
\* on_success and on_fail, and called it once; one under way has called
\* neither.
C35_OneCallbackOnce ==
    IF custom_pc \in {"done", "raised", "cancelled"}
    THEN custom_call.on_success + custom_call.on_fail = 1
    ELSE custom_call.on_success + custom_call.on_fail = 0

\* A text occurs in another.
OccursIn(part, text) ==
    \E i \in 0..(Len(text) - Len(part)) :
        SubSeq(text, i + 1, i + Len(part)) = part

\* C38: the payload built for a request with a system prompt carries the
\* prompt's text, in an entry of the history or in the content of the
\* current message.
C38_SystemPromptKept ==
    (PayloadBuilt /\ SystemPromptOf(messages) # <<>>) =>
        \/ \E i \in DOMAIN history :
              OccursIn(SystemPromptOf(messages), history[i].content)
        \/ OccursIn(SystemPromptOf(messages), current_content)

====
